---- MODULE Spec2Model ----
(***************************************************************************)
(* Content engines of the portfolio site: the blog and projects loaders    *)
(* (utils/blog_engine.py, utils/projects_engine.py), the knowledge-base    *)
(* loader (utils/knowledge_base_manager.py) and the personal-context       *)
(* loader (utils/context.py).                                              *)
(*                                                                         *)
(* Spec      one engine (blog or projects) over one source directory that  *)
(*           an external editor changes while requests query the engine.   *)
(* SpecQuery one engine answering queries over every directory of three    *)
(*           files, with no editor.                                        *)
(* SpecConc  one blog engine whose get_all_posts is run line by line by    *)
(*           two request threads while the editor changes the files.       *)
(* SpecKB    the knowledge-base manager over one JSON file.                *)
(* SpecCtx   the ContextManager over one JSON document that an editor      *)
(*           rewrites between loads.                                       *)
(* SpecVal   construction of a ContextManager over every document with one *)
(*           timeline item.                                                *)
(* SpecNorm  the hobby background path normalisation applied repeatedly.   *)
(***************************************************************************)
EXTENDS Integers, Sequences, FiniteSets, TLC

VARIABLES
    \* ---- blog / projects engine and its source directory ----
    engine,            \* "blog" or "projects": which class the instance is
    dir_exists,        \* posts_dir.exists()
    dir_mtime,         \* posts_dir.stat().st_mtime
    files,             \* the *.md files: name -> [present, mtime, content]
    cache_timestamp,   \* self._cache_timestamp (NoneTs when None)
    lru,               \* the lru_cache(maxsize=1) slot: <<>> or <<[key, val]>>
    lastOp,            \* the last event: "request", "clear_cache" or "change" (on disk)
    coll,              \* the list _load_all_posts_cached handed to the last request
    scanned,           \* the body of _load_all_posts_cached ran during the last request
    consecutive,       \* the last request directly followed another request
    edited,            \* an existing file got new content and a new mtime since the last request
    \* ---- queries on the engine ----
    scan_order,        \* the order in which glob listed the files in the last rescan
    q_op,              \* the last query: "get_related_posts", "get_featured_projects", ...
    q_arg,             \* its arguments: [ref, limit, tag, slug]
    q_ret,             \* the list it returned
    threads,           \* each request thread's place in get_all_posts and its locals
    edits,             \* [n, later]: edits made so far; each raised the latest mtime
    instances,         \* two engines of one class: the directory and self._cache_timestamp of each
    \* ---- knowledge-base manager ----
    kb_file,           \* [exists, mtime, doc]
    kb_timestamp,      \* self._cache_timestamp of the manager
    kb_lru,            \* its lru_cache slot
    kb_ret,            \* what the last get_terminals returned: the terminals, by position in the document
    kb_last,           \* the last event: "request", "clear_cache" or "change"
    kb_scanned,        \* the body of _load_terminals_cached ran during the last request
    \* ---- context manager ----
    ctx_file,          \* [exists, mtime, doc]
    cm_state,          \* "none" | "ready" | "failed": outcome of construction
    cm_mtime,          \* self._mtime (NoneTs when None)
    cm_timeline,       \* self.timeline: the exposed timeline items
    cm_hobbies,        \* self.hobbies: the exposed background path of each hobby
    cm_op,             \* the last event: "construct", "reload", "reload_if_changed" or "change"
    cm_raised,         \* the exception that call raised ("" when it returned)
    cm_result,         \* <<ValidationResult>> when that call ran validate, else <<>>
    cm_loaded,         \* whether the last step called _load_json
    \* ---- path normalisation ----
    bg_in,             \* a hobby background path, as a sequence of chunks
    bg_once,           \* it after one normalisation
    bg_twice,          \* it after two normalisations
    bg_steps           \* normalisations applied so far

engineVars == <<engine, dir_exists, dir_mtime, files, cache_timestamp, lru,
                lastOp, coll, scanned, consecutive, edited>>
queryVars  == <<scan_order, q_op, q_arg, q_ret, threads, edits, instances>>
kbVars     == <<kb_file, kb_timestamp, kb_lru, kb_ret, kb_last, kb_scanned>>
ctxVars    == <<ctx_file, cm_state, cm_mtime, cm_timeline, cm_hobbies, cm_op, cm_raised,
                cm_result, cm_loaded>>
normVars   == <<bg_in, bg_once, bg_twice, bg_steps>>
vars       == <<engineVars, queryVars, kbVars, ctxVars, normVars>>

(***************************************************************************)
(* Bounds                                                                  *)
(***************************************************************************)
\* Modification times range over the ticks 1..MaxTime.
MaxTime == 2

\* A knowledge-base document lists at most MaxTerminals terminal records.
MaxTerminals == 3

\* The timeline of a context document the editor writes has at most MaxItems items.
MaxItems == 2

\* A hobby background path is made of at most MaxPathLen chunks.
MaxPathLen == 4

(***************************************************************************)
(* Values shared by the engines                                            *)
(***************************************************************************)
\* Optional[float] = None for a cache timestamp
NoneTs == -1

\* post.get("date") is None: the frontmatter has no date
NoDate == 0

\* a frontmatter date that DATE_FORMAT does not parse
MalformedDate == -2

\* datetime.min, the sort key of a project without date
DatetimeMin == 0

\* str.lower() over the tags the model uses
Lower(t) ==
    CASE t = "Go" -> "go"
      [] t = "GO" -> "go"
      [] t = "Py" -> "py"
      [] OTHER    -> t

\* order of str values, as Python compares them, over the titles the model uses
StrRank(s) ==
    CASE s = "Alpha"            -> 1
      [] s = "Beta"             -> 2
      [] s = "Untitled"         -> 3
      [] s = "Untitled Project" -> 4
      [] OTHER                  -> 0

\* datetime.fromtimestamp(st_mtime): later mtimes give later dates, all of
\* them after the dates the sample files carry
date_fromtimestamp(m) == 20250100 + m

\* all orders in which a directory listing can enumerate the set S
RECURSIVE Perms(_)
Perms(S) ==
    IF S = {} THEN {<<>>}
    ELSE UNION {{<<x>> \o p : p \in Perms(S \ {x})} : x \in S}

(***************************************************************************)
(* The source directory                                                    *)
(***************************************************************************)
\* The *.md files the editor may put in the directory. name is the file name
\* without ".md"; prefix is the date a leading YYYY-MM-DD names (NoDate when
\* the name has none) and stem is what follows the "YYYY-MM-DD-" prefix.
FileNames ==
    { [name |-> "a",            prefix |-> NoDate,   stem |-> "a"],
      [name |-> "2024-01-30-b", prefix |-> 20240130, stem |-> "b"] }

\* a file that frontmatter.load cannot read
Unreadable ==
    [readable |-> FALSE, title |-> "", date |-> NoDate, slug |-> "",
     draft |-> FALSE, tags |-> <<>>, featured |-> FALSE]

\* What the editor may write into a file: the frontmatter keys the engines
\* read ("" and NoDate stand for an absent key).
Contents ==
    { Unreadable,
      [readable |-> TRUE, title |-> "Alpha", date |-> 20240102, slug |-> "a",
       draft |-> FALSE, tags |-> <<"Go">>, featured |-> FALSE],
      [readable |-> TRUE, title |-> "Beta", date |-> NoDate, slug |-> "",
       draft |-> TRUE, tags |-> <<"GO", "Py">>, featured |-> FALSE] }

\* the slugs and tags requests ask for
Slugs == {"a", "b", "zzz"}
Tags  == {"go", "GO", "rust"}

Absent == [present |-> FALSE, mtime |-> 0, content |-> Unreadable]

\* posts_dir.glob("*.md"): the files present, in any enumeration order
PresentFiles == {f \in DOMAIN files : files[f].present}
ScanOrders   == IF dir_exists THEN Perms(PresentFiles) ELSE {<<>>}

(***************************************************************************)
(* Parser                                                                  *)
(***************************************************************************)
\* BlogEngine._extract_slug_from_filename: strips a leading YYYY-MM-DD-
blog_extract_slug_from_filename(f) == IF f.prefix # NoDate THEN f.stem ELSE f.name

\* ProjectsEngine._extract_slug_from_filename: the name without extension
projects_extract_slug_from_filename(f) == f.name

\* BlogEngine._parse_post: <<post>>, or <<>> when the try block raised
parse_post(f, c, mtime) ==
    IF ~c.readable THEN <<>>
    ELSE IF c.date = MalformedDate THEN <<>>
    ELSE <<[file     |-> f.name,
            slug     |-> IF c.slug # "" THEN c.slug ELSE blog_extract_slug_from_filename(f),
            title    |-> IF c.title # "" THEN c.title ELSE "Untitled",
            date     |-> IF c.date # NoDate THEN c.date
                         ELSE IF f.prefix # NoDate THEN f.prefix
                         ELSE date_fromtimestamp(mtime),
            is_draft |-> c.draft,
            tags     |-> c.tags]>>

\* ProjectsEngine._parse_project: a date that does not parse becomes None
parse_project(f, c, mtime) ==
    IF ~c.readable THEN <<>>
    ELSE <<[file     |-> f.name,
            slug     |-> IF c.slug # "" THEN c.slug ELSE projects_extract_slug_from_filename(f),
            title    |-> IF c.title # "" THEN c.title ELSE "Untitled Project",
            date     |-> IF c.date = MalformedDate THEN NoDate ELSE c.date,
            is_draft |-> c.draft,
            tags     |-> c.tags,
            featured |-> c.featured]>>

parse_unit(f) ==
    IF engine = "blog" THEN parse_post(f, files[f].content, files[f].mtime)
    ELSE parse_project(f, files[f].content, files[f].mtime)

(***************************************************************************)
(* Sorting                                                                 *)
(***************************************************************************)
\* the sort key of a, less than that of b: key=lambda p: p.date for posts,
\* key=lambda p: (p.date or datetime.min, p.title) for projects
key_less(a, b) ==
    LET da == IF a.date = NoDate THEN DatetimeMin ELSE a.date
        db == IF b.date = NoDate THEN DatetimeMin ELSE b.date
    IN  IF engine = "blog" THEN a.date < b.date
        ELSE \/ da < db
             \/ da = db /\ StrRank(a.title) < StrRank(b.title)

\* list.sort(key=..., reverse=True): descending and stable, so x goes after
\* every element whose key is not smaller than its own
RECURSIVE insert_desc(_, _)
insert_desc(s, x) ==
    IF s = <<>> THEN <<x>>
    ELSE IF key_less(Head(s), x) THEN <<x>> \o s
    ELSE <<Head(s)>> \o insert_desc(Tail(s), x)

RECURSIVE sort_desc(_)
sort_desc(s) ==
    IF s = <<>> THEN <<>>
    ELSE insert_desc(sort_desc(SubSeq(s, 1, Len(s) - 1)), s[Len(s)])

(***************************************************************************)
(* FreshnessGate and CollectionCache                                       *)
(***************************************************************************)
RECURSIVE SetMax(_, _)
SetMax(S, m) ==
    IF S = {} THEN m
    ELSE LET x == CHOOSE y \in S : TRUE
         IN  SetMax(S \ {x}, IF x > m THEN x ELSE m)

\* _get_posts_dir_mtime / _get_projects_dir_mtime
get_posts_dir_mtime ==
    IF ~dir_exists THEN 0
    ELSE SetMax({files[f].mtime : f \in PresentFiles}, dir_mtime)

\* a freshness gate that asks for a refresh on every request
should_refresh_cache_always == TRUE

\* _should_refresh_cache
should_refresh_cache ==
    IF cache_timestamp = NoneTs THEN TRUE
    ELSE get_posts_dir_mtime > cache_timestamp

\* the for loop of _load_all_posts_cached over one enumeration order
RECURSIVE parse_all(_)
parse_all(order) ==
    IF order = <<>> THEN <<>>
    ELSE parse_unit(Head(order)) \o parse_all(Tail(order))

\* a loop that the first file that fails to parse ends
RECURSIVE parse_until_failure(_)
parse_until_failure(order) ==
    IF order = <<>> THEN <<>>
    ELSE IF parse_unit(Head(order)) = <<>> THEN <<>>
    ELSE parse_unit(Head(order)) \o parse_until_failure(Tail(order))

\* a loader whose loop stops at the first bad file
load_all_posts_abort(order) ==
    IF ~dir_exists THEN <<>>
    ELSE sort_desc(parse_until_failure(order))

\* a loader that leaves the units in glob order
load_all_posts_unsorted(order) ==
    IF ~dir_exists THEN <<>>
    ELSE parse_all(order)

\* body of _load_all_posts_cached / _load_all_projects_cached
load_all_posts(order) ==
    IF ~dir_exists THEN <<>>
    ELSE sort_desc(parse_all(order))

\* every collection a rescan of the directory as it is now can produce
Loads == {load_all_posts(o) : o \in ScanOrders}

(***************************************************************************)
(* QueryLayer: what each request returns, given the list posts that        *)
(* _load_all_posts_cached handed to it                                     *)
(***************************************************************************)
NotDraft(p) == ~p.is_draft

\* tag.lower() in [t.lower() for t in p.tags]
HasTag(p, t) == \E i \in 1..Len(p.tags) : Lower(p.tags[i]) = Lower(t)

\* a listing that keeps the drafts
filter_drafts_keep(posts, include_drafts) == posts

\* the tail of get_all_posts: [p for p in posts if not p.is_draft] unless include_drafts
filter_drafts(posts, include_drafts) ==
    IF include_drafts THEN posts ELSE SelectSeq(posts, NotDraft)

\* the loop of get_post_by_slug over get_all_posts(include_drafts=True):
\* <<post>> for the first match, <<>> for None
RECURSIVE first_with_slug(_, _)
first_with_slug(posts, slug) ==
    IF posts = <<>> THEN <<>>
    ELSE IF Head(posts).slug = slug THEN <<Head(posts)>>
    ELSE first_with_slug(Tail(posts), slug)

\* a lookup in which the last match wins
post_by_slug_last(posts, slug) ==
    LET Same(p) == p.slug = slug
        matches == SelectSeq(filter_drafts(posts, TRUE), Same)
    IN  IF matches = <<>> THEN <<>> ELSE <<matches[Len(matches)]>>

\* get_post_by_slug over get_all_posts(include_drafts=True)
post_by_slug(posts, slug) == first_with_slug(filter_drafts(posts, TRUE), slug)

\* a lookup that compares the tags as written
posts_by_tag_exact(posts, t) ==
    LET Match(p) == \E i \in 1..Len(p.tags) : p.tags[i] = t
    IN  SelectSeq(filter_drafts(posts, FALSE), Match)

\* get_posts_by_tag over get_all_posts()
posts_by_tag(posts, t) ==
    LET Match(p) == HasTag(p, t)
    IN  SelectSeq(filter_drafts(posts, FALSE), Match)

\* tags[tag_lower] = tags.get(tag_lower, 0) + 1 on a dict kept in insertion order
count_tag(d, t) ==
    IF \E i \in 1..Len(d) : d[i].tag = t
    THEN [i \in 1..Len(d) |-> IF d[i].tag = t
                              THEN [tag |-> t, count |-> d[i].count + 1] ELSE d[i]]
    ELSE Append(d, [tag |-> t, count |-> 1])

RECURSIVE count_tags_of(_, _)
count_tags_of(d, tags) ==
    IF tags = <<>> THEN d
    ELSE count_tags_of(count_tag(d, Lower(Head(tags))), Tail(tags))

RECURSIVE count_tags(_, _)
count_tags(d, posts) ==
    IF posts = <<>> THEN d
    ELSE count_tags(count_tags_of(d, Head(posts).tags), Tail(posts))

\* sorted(tags.items(), key=lambda x: x[1], reverse=True)
RECURSIVE insert_by_count(_, _)
insert_by_count(s, x) ==
    IF s = <<>> THEN <<x>>
    ELSE IF Head(s).count < x.count THEN <<x>> \o s
    ELSE <<Head(s)>> \o insert_by_count(Tail(s), x)

RECURSIVE sort_by_count(_)
sort_by_count(s) ==
    IF s = <<>> THEN <<>>
    ELSE insert_by_count(sort_by_count(SubSeq(s, 1, Len(s) - 1)), s[Len(s)])

\* get_all_tags over get_all_posts(): the dict as the list of its items
all_tags(posts) == sort_by_count(count_tags(<<>>, filter_drafts(posts, FALSE)))

(***************************************************************************)
(* Requests on the engine                                                  *)
(***************************************************************************)
\* Lines 275-279 of get_all_posts (262-266 of get_all_projects): the
\* freshness check, cache_clear, the new timestamp and the call of the
\* lru-cached loader, which hands back posts. The lru key is (self, cache_key);
\* there is one instance, so the key is the timestamp.
fetch_posts(posts) ==
    LET refresh == should_refresh_cache
        ts      == IF refresh THEN get_posts_dir_mtime ELSE cache_timestamp
        key     == IF ts = NoneTs THEN 0 ELSE ts
        slot    == IF refresh THEN <<>> ELSE lru
        hit     == slot # <<>> /\ slot[1].key = key
    IN  /\ cache_timestamp' = ts
        /\ IF hit
           THEN /\ posts = slot[1].val
                /\ lru' = slot
                /\ scanned' = FALSE
           ELSE /\ posts \in Loads
                /\ lru' = <<[key |-> key, val |-> posts]>>
                /\ scanned' = TRUE

\* the lists the loader can hand back in the current state
Fetchable == Loads \cup {lru[i].val : i \in 1..Len(lru)}

\* A request fetches posts and returns a value computed from posts and its
\* argument alone (get_all_posts: filter_drafts, get_post_by_slug:
\* post_by_slug, get_posts_by_tag: posts_by_tag, get_all_tags: all_tags), so
\* the state keeps posts, in coll, and the return values are read off it.
Served(posts) ==
    /\ lastOp' = "request"
    /\ coll' = posts
    /\ consecutive' = (lastOp = "request")
    /\ edited' = FALSE
    /\ UNCHANGED <<engine, dir_exists, dir_mtime, files>>

\* returns filter_drafts(posts, include_drafts)
get_all_posts(include_drafts) ==
    \E posts \in Fetchable : fetch_posts(posts) /\ Served(posts)

\* returns post_by_slug(posts, slug)
get_post_by_slug(slug) ==
    \E posts \in Fetchable : fetch_posts(posts) /\ Served(posts)

\* returns posts_by_tag(posts, t)
get_posts_by_tag(t) ==
    \E posts \in Fetchable : fetch_posts(posts) /\ Served(posts)

\* returns all_tags(posts)
get_all_tags ==
    \E posts \in Fetchable : fetch_posts(posts) /\ Served(posts)

\* what a step that is not a request leaves in the observation variables
Forget(op) ==
    /\ lastOp' = op
    /\ coll' = <<>>
    /\ scanned' = FALSE
    /\ consecutive' = FALSE

clear_cache ==
    /\ lru' = <<>>
    /\ cache_timestamp' = NoneTs
    /\ Forget("clear_cache")
    /\ UNCHANGED <<engine, dir_exists, dir_mtime, files, edited>>

(***************************************************************************)
(* The editor                                                              *)
(***************************************************************************)
\* Modification times are ticks 1..MaxTime of the filesystem clock. The
\* kernel stamps a directory with the current tick t, which is never before
\* the tick it stamped it with last; a file gets the tick m the writer gives
\* it: the current one, or an earlier one when the mtime is preserved or set
\* back (cp -p, rsync -t, touch -d).
Times == 1..MaxTime

\* The editor writes content c into file f, which gets mtime m. Creating the
\* file also stamps the directory with t, and a new file is not dated after
\* the tick it is created in.
WriteFile(f, c, m, t) ==
    /\ dir_exists
    /\ files' = [files EXCEPT ![f] = [present |-> TRUE, mtime |-> m, content |-> c]]
    /\ files' # files
    /\ IF files[f].present THEN t = dir_mtime ELSE t >= dir_mtime /\ m <= t
    /\ dir_mtime' = t
    /\ edited' = (edited \/ (files[f].present /\ files[f].content # c /\ files[f].mtime # m))
    /\ Forget("change")
    /\ UNCHANGED <<engine, dir_exists, cache_timestamp, lru>>

\* the editor deletes file f, which stamps the directory with t
DeleteFile(f, t) ==
    /\ dir_exists
    /\ files[f].present
    /\ files' = [files EXCEPT ![f] = Absent]
    /\ t >= dir_mtime
    /\ dir_mtime' = t
    /\ edited' = FALSE
    /\ Forget("change")
    /\ UNCHANGED <<engine, dir_exists, cache_timestamp, lru>>

\* the directory is removed with everything in it
RemoveDir ==
    /\ dir_exists
    /\ dir_exists' = FALSE
    /\ dir_mtime' = 0
    /\ files' = [f \in FileNames |-> Absent]
    /\ edited' = FALSE
    /\ Forget("change")
    /\ UNCHANGED <<engine, cache_timestamp, lru>>

\* the directory is created, empty, and stamped with t
MakeDir(t) ==
    /\ ~dir_exists
    /\ dir_exists' = TRUE
    /\ dir_mtime' = t
    /\ Forget("change")
    /\ UNCHANGED <<engine, files, cache_timestamp, lru, edited>>

(***************************************************************************)
(* Specification of one engine                                             *)
(***************************************************************************)

\* the variables of the other components, while they are not running
IdleKB ==
    /\ kb_file = <<>>
    /\ kb_timestamp = NoneTs
    /\ kb_lru = <<>>
    /\ kb_ret = <<>>
    /\ kb_last = "init"
    /\ kb_scanned = FALSE

IdleCtx ==
    /\ ctx_file = <<>>
    /\ cm_state = "none"
    /\ cm_mtime = NoneTs
    /\ cm_timeline = <<>>
    /\ cm_hobbies = <<>>
    /\ cm_op = "init"
    /\ cm_raised = ""
    /\ cm_result = <<>>
    /\ cm_loaded = FALSE

IdleNorm ==
    /\ bg_in = <<>>
    /\ bg_once = <<>>
    /\ bg_twice = <<>>
    /\ bg_steps = 0

\* no query was made
IdleQuery ==
    /\ scan_order = <<>>
    /\ q_op = "none"
    /\ q_arg = <<>>
    /\ q_ret = <<>>
    /\ threads = <<>>
    /\ edits = <<>>
    /\ instances = <<>>

IdleEngine ==
    /\ engine = "blog"
    /\ dir_exists = FALSE
    /\ dir_mtime = 0
    /\ files = <<>>
    /\ cache_timestamp = NoneTs
    /\ lru = <<>>
    /\ lastOp = "init"
    /\ coll = <<>>
    /\ scanned = FALSE
    /\ consecutive = FALSE
    /\ edited = FALSE

\* BlogEngine.__init__ / ProjectsEngine.__init__, over a directory that may
\* or may not exist yet
Init ==
    /\ engine \in {"blog", "projects"}
    /\ dir_exists \in BOOLEAN
    /\ dir_mtime \in (IF dir_exists THEN Times ELSE {0})
    /\ files = [f \in FileNames |-> Absent]
    /\ cache_timestamp = NoneTs
    /\ lru = <<>>
    /\ lastOp = "init"
    /\ coll = <<>>
    /\ scanned = FALSE
    /\ consecutive = FALSE
    /\ edited = FALSE
    /\ IdleQuery /\ IdleKB /\ IdleCtx /\ IdleNorm

Next ==
    \/ \E d \in BOOLEAN : get_all_posts(d) /\ UNCHANGED <<queryVars, kbVars, ctxVars, normVars>>
    \/ \E s \in Slugs : get_post_by_slug(s) /\ UNCHANGED <<queryVars, kbVars, ctxVars, normVars>>
    \/ \E t \in Tags : get_posts_by_tag(t) /\ UNCHANGED <<queryVars, kbVars, ctxVars, normVars>>
    \/ get_all_tags /\ UNCHANGED <<queryVars, kbVars, ctxVars, normVars>>
    \/ clear_cache /\ UNCHANGED <<queryVars, kbVars, ctxVars, normVars>>
    \/ \E f \in FileNames, c \in Contents, m \in Times, t \in Times :
          WriteFile(f, c, m, t) /\ UNCHANGED <<queryVars, kbVars, ctxVars, normVars>>
    \/ \E f \in FileNames, t \in Times : DeleteFile(f, t) /\ UNCHANGED <<queryVars, kbVars, ctxVars, normVars>>
    \/ RemoveDir /\ UNCHANGED <<queryVars, kbVars, ctxVars, normVars>>
    \/ \E t \in Times : MakeDir(t) /\ UNCHANGED <<queryVars, kbVars, ctxVars, normVars>>

Spec == Init /\ [][Next]_vars

(***************************************************************************)
(* Claims about the engine                                                 *)
(***************************************************************************)
Range(s) == {s[i] : i \in 1..Len(s)}

\* C1: when a request directly follows another request on the same engine,
\* with no change on disk and no clear_cache between them, the loader hands
\* it the same collection as before and its body does not run again.
C1_RepeatServedFromCache ==
    [][consecutive' => (coll' = coll /\ scanned' = FALSE)]_vars

\* a second request in a row was served a non-empty collection
C1_Witness == consecutive /\ lastOp = "request" /\ Len(coll) = 2

\* C2: after an existing file got a new mtime and new content, the next
\* get_all returns a collection parsed from the files as they are now.
C2_EditSeenByNextRequest ==
    [][(edited /\ lastOp' = "request") => coll' \in Loads]_vars

\* the drafts of the collection handed to the last request
Drafts == {i \in 1..Len(coll) : coll[i].is_draft}

\* how often non-draft posts carry a tag that lowercases to tag
TagOccurrences(posts, tag) ==
    Cardinality({<<i, k>> \in (1..Len(posts)) \X (1..2) :
                    /\ k <= Len(posts[i].tags)
                    /\ ~posts[i].is_draft
                    /\ Lower(posts[i].tags[k]) = tag})

\* drafts are in none of the listings and in none of the tag counts
DraftsUnlisted ==
    /\ \A i \in Drafts : coll[i] \notin Range(filter_drafts(coll, FALSE))
    /\ \A i \in Drafts : \A t \in Tags \cup {"py", "Py"} :
            coll[i] \notin Range(posts_by_tag(coll, t))
    /\ \A t \in {"go", "py", "rust"} :
            LET hits == {k \in 1..Len(all_tags(coll)) : all_tags(coll)[k].tag = t}
            IN  IF TagOccurrences(coll, t) = 0 THEN hits = {}
                ELSE /\ Cardinality(hits) = 1
                     /\ \A k \in hits : all_tags(coll)[k].count = TagOccurrences(coll, t)

\* C3 as stated: a draft is in no listing and in no tag count, and
\* get_by_slug for its slug returns it.
C3_DraftFoundBySlug ==
    lastOp = "request" =>
        /\ DraftsUnlisted
        /\ \A i \in Drafts : post_by_slug(coll, coll[i].slug) = <<coll[i]>>

\* C3: a draft is in no listing and in no tag count, and get_by_slug for its
\* slug returns it when no post before it in the collection has that slug.
C3_DraftFoundBySlugIfFirst ==
    lastOp = "request" =>
        /\ DraftsUnlisted
        /\ \A i \in Drafts :
              (\A j \in 1..(i - 1) : coll[j].slug # coll[i].slug)
                  => post_by_slug(coll, coll[i].slug) = <<coll[i]>>

\* a request was handed a draft together with a post that is not a draft
C3_Witness ==
    /\ lastOp = "request"
    /\ \E i, j \in 1..Len(coll) : coll[i].is_draft /\ ~coll[j].is_draft

\* C4: a get_all request made while the directory does not exist returns
\* the empty collection.
C4_MissingDirectoryEmpty ==
    (lastOp = "request" /\ ~dir_exists) => filter_drafts(coll, FALSE) = <<>>

\* the files a rescan can parse
Parseable == {f \in PresentFiles : parse_unit(f) # <<>>}

RecordKinds == {"ok", "not_object", "bad_command"}

\* What the file may hold: text json.load rejects, or a document whose
\* "terminals" is a list of records.
MalformedJson == <<"malformed">>
KBDocs ==
    {MalformedJson} \cup UNION {[1..n -> RecordKinds] : n \in 0..MaxTerminals}

KBMissing == [exists |-> FALSE, mtime |-> 0, doc |-> <<>>]

\* _get_kb_file_mtime
get_kb_file_mtime == IF ~kb_file.exists THEN 0 ELSE kb_file.mtime

\* KnowledgeBaseManager._should_refresh_cache
kb_should_refresh_cache ==
    IF kb_timestamp = NoneTs THEN TRUE
    ELSE get_kb_file_mtime > kb_timestamp

\* The for loop of _load_terminals_cached from record i on, inside the one
\* try block: a record that raises ends the loop, and the except clause
\* keeps what was appended before it.
RECURSIVE load_records(_, _)
load_records(doc, i) ==
    IF i > Len(doc) THEN <<>>
    ELSE IF doc[i] # "ok" THEN <<>>
    ELSE <<i>> \o load_records(doc, i + 1)

\* body of _load_terminals_cached
load_terminals ==
    IF ~kb_file.exists THEN <<>>
    ELSE IF kb_file.doc = MalformedJson THEN <<>>
    ELSE load_records(kb_file.doc, 1)

\* KnowledgeBaseManager.get_terminals
get_terminals ==
    LET refresh == kb_should_refresh_cache
        ts      == IF refresh THEN get_kb_file_mtime ELSE kb_timestamp
        key     == IF ts = NoneTs THEN 0 ELSE ts
        slot    == IF refresh THEN <<>> ELSE kb_lru
        hit     == slot # <<>> /\ slot[1].key = key
        val     == IF hit THEN slot[1].val ELSE load_terminals
    IN  /\ kb_timestamp' = ts
        /\ kb_lru' = <<[key |-> key, val |-> val]>>
        /\ kb_scanned' = ~hit
        /\ kb_ret' = val
        /\ kb_last' = "request"
        /\ UNCHANGED kb_file

\* KnowledgeBaseManager.clear_cache
kb_clear_cache ==
    /\ kb_lru' = <<>>
    /\ kb_timestamp' = NoneTs
    /\ kb_ret' = <<>>
    /\ kb_scanned' = FALSE
    /\ kb_last' = "clear_cache"
    /\ UNCHANGED kb_file

\* the editor writes the document, which gets mtime m
KBWrite(doc, m) ==
    /\ kb_file' = [exists |-> TRUE, mtime |-> m, doc |-> doc]
    /\ kb_file' # kb_file
    /\ kb_ret' = <<>>
    /\ kb_scanned' = FALSE
    /\ kb_last' = "change"
    /\ UNCHANGED <<kb_timestamp, kb_lru>>

\* the file is removed
KBDelete ==
    /\ kb_file.exists
    /\ kb_file' = KBMissing
    /\ kb_ret' = <<>>
    /\ kb_scanned' = FALSE
    /\ kb_last' = "change"
    /\ UNCHANGED <<kb_timestamp, kb_lru>>


NextKB ==
    \/ get_terminals /\ UNCHANGED <<engineVars, queryVars, ctxVars, normVars>>
    \/ kb_clear_cache /\ UNCHANGED <<engineVars, queryVars, ctxVars, normVars>>
    \/ \E doc \in KBDocs, m \in Times : KBWrite(doc, m) /\ UNCHANGED <<engineVars, queryVars, ctxVars, normVars>>
    \/ KBDelete /\ UNCHANGED <<engineVars, queryVars, ctxVars, normVars>>

\* KnowledgeBaseManager.__init__, over a file that does not exist yet
InitOfKB ==
    /\ kb_file = KBMissing
    /\ kb_timestamp = NoneTs
    /\ kb_lru = <<>>
    /\ kb_ret = <<>>
    /\ kb_last = "init"
    /\ kb_scanned = FALSE
    /\ IdleEngine /\ IdleQuery /\ IdleCtx /\ IdleNorm

SpecKB == InitOfKB /\ [][NextKB]_vars

\* the well-formed records of a document, by position
OkRecords(doc) == {i \in 1..Len(doc) : doc[i] = "ok"}

\* C6: when get_terminals loads a document in which one terminal record
\* fails to parse, it returns every other record of the document.
C6_OnlyBadRecordDropped ==
    (/\ kb_last = "request" /\ kb_scanned /\ kb_file.exists
     /\ kb_file.doc # MalformedJson
     /\ Cardinality({i \in 1..Len(kb_file.doc) : kb_file.doc[i] # "ok"}) = 1)
        => Range(kb_ret) = OkRecords(kb_file.doc)

(***************************************************************************)
(* Context document: values                                                *)
(***************************************************************************)
\* JSON null, or a key the object does not have
JsonNull == "<null>"

\* a JSON value that is not a string and is truthy (a number such as 5)
NonStr == "<number>"

\* a JSON array or object: a value Python cannot hash
JsonList == "<list>"

\* Raw values of start_date / end_date. The string "YYYY-MM-DD" is the number
\* YYYYMMDD; NullDate is null and BadFormatDate a string DATE_RE rejects.
NullDate == 0
BadFormatDate == -2

\* what _parse_iso_date returns for a value it rejects
NoneDate == 0

\* date.min, the sort key of an item whose start date does not parse
DateMin == 10101

MONTHS_EN == <<"Jan", "Feb", "Mar", "Apr", "May", "Jun",
               "Jul", "Aug", "Sep", "Oct", "Nov", "Dec">>
ALLOWED_PRECISIONS == {"year", "month", "day"}
ALLOWED_TIMELINE_TYPES == {"work", "education", "project"}
DOT_PALETTE == <<"bg-zinc-100", "bg-zinc-400", "bg-zinc-500", "bg-zinc-600",
                 "bg-zinc-700", "bg-zinc-800">>

\* datetime.date fields of YYYYMMDD
year_of(d)  == d \div 10000
month_of(d) == (d \div 100) % 100
day_of(d)   == d % 100

\* the calendar check of date.fromisoformat
days_in_month(y, m) ==
    IF m \in {4, 6, 9, 11} THEN 30
    ELSE IF m = 2
         THEN (IF (y % 4 = 0 /\ y % 100 # 0) \/ y % 400 = 0 THEN 29 ELSE 28)
         ELSE 31

valid_calendar_date(d) ==
    /\ year_of(d) >= 1
    /\ month_of(d) \in 1..12
    /\ day_of(d) \in 1..days_in_month(year_of(d), month_of(d))

\* str.strip() over the texts the model uses
Strip(s) ==
    CASE s = " text " -> "text"
      [] OTHER        -> s

\* _parse_iso_date: the date, or NoneDate with the error it appends
parse_iso_date(s) ==
    IF s \in {NullDate, BadFormatDate}
    THEN [date |-> NoneDate, error |-> "format"]
    ELSE IF ~valid_calendar_date(s)
         THEN [date |-> NoneDate, error |-> "calendar"]
         ELSE [date |-> s, error |-> ""]

\* a checker that knows year precision only
check_precision_year_only(d, precision) ==
    IF precision \notin ALLOWED_PRECISIONS THEN {"precision_unknown"}
    ELSE IF precision = "year" /\ ~(month_of(d) = 1 /\ day_of(d) = 1)
         THEN {"precision_year"}
         ELSE {}

\* _check_precision_consistency: the errors it appends for date d
check_precision_consistency(d, precision) ==
    IF precision \notin ALLOWED_PRECISIONS THEN {"precision_unknown"}
    ELSE IF precision = "year"
         THEN (IF ~(month_of(d) = 1 /\ day_of(d) = 1) THEN {"precision_year"} ELSE {})
         ELSE IF precision = "month"
              THEN (IF day_of(d) # 1 THEN {"precision_month"} ELSE {})
              ELSE {}

(***************************************************************************)
(* Context document: validation                                            *)
(***************************************************************************)
\* The errors and warnings lines 335-374 of validate append for item i of
\* the timeline, each as [at, field, rule], and the exception the checks of
\* the item raise ("" when none).
validate_item(i, item) ==
    LET E(field, rule) == [at |-> i, field |-> field, rule |-> rule]
        sp     == item.start_precision
        start  == parse_iso_date(item.start_date)
        sd     == start.date
        ed_raw == item.end_date
        ep     == item.end_precision
        end    == parse_iso_date(ed_raw)
        ed     == end.date
    IN  [errors |->
            (IF sp \notin ALLOWED_PRECISIONS
             THEN {E("start_precision", "not_allowed")} ELSE {})
            \cup (IF start.error # "" THEN {E("start_date", start.error)} ELSE {})
            \cup (IF sd # NoneDate /\ sp \notin {JsonNull, NonStr, JsonList}
                  THEN {E("start_date", r) : r \in check_precision_consistency(sd, sp)}
                  ELSE {})
            \cup (IF item.is_current \notin {"true", "false"}
                  THEN {E("is_current", "not_boolean")} ELSE {})
            \cup (IF item.is_current = "true"
                  THEN (IF ed_raw # NullDate
                        THEN {E("end_date", "not_null_when_current")} ELSE {})
                  ELSE IF ed_raw # NullDate
                       THEN (IF ep \notin ALLOWED_PRECISIONS
                             THEN {E("end_precision", "not_allowed")} ELSE {})
                            \cup (IF end.error # ""
                                  THEN {E("end_date", end.error)} ELSE {})
                            \cup (IF ed # NoneDate /\ sd # NoneDate /\ ed < sd
                                  THEN {E("item", "end_before_start")} ELSE {})
                            \cup (IF ed # NoneDate /\ ep \notin {JsonNull, NonStr, JsonList}
                                  THEN {E("end_date", r) :
                                           r \in check_precision_consistency(ed, ep)}
                                  ELSE {})
                       ELSE {}),
         warnings |->
            (IF item.type \notin ALLOWED_TIMELINE_TYPES
             THEN {E("type", "unexpected")} ELSE {})
            \cup (IF item.type = "work" /\ item.role = JsonNull
                  THEN {E("role", "missing")} ELSE {}),
         \* "x not in ALLOWED_..." hashes x: lines 336, 340 and 354
         raised |->
            IF \/ item.type = JsonList
               \/ sp = JsonList
               \/ item.is_current # "true" /\ ed_raw # NullDate /\ ep = JsonList
            THEN "TypeError" ELSE ""]

\* a validation that finds nothing wrong
validate_nothing(doc) == [ok |-> TRUE, errors |-> {}, warnings |-> {}, raised |-> ""]

\* ContextManager.validate over a loaded document. Of the root only the
\* "contact" key varies: without it lines 299-301 and 391-393 append. When
\* raised is not "" the call raised it and returned no ValidationResult.
validate(doc) ==
    LET E(field, rule) == [at |-> 0, field |-> field, rule |-> rule]
        root   == IF doc.root = "no_contact"
                  THEN {E("root", "missing_contact"), E("contact.email", "invalid")}
                  ELSE {}
        items  == [i \in 1..Len(doc.timeline) |-> validate_item(i, doc.timeline[i])]
        errors == root \cup UNION {items[i].errors : i \in 1..Len(doc.timeline)}
    IN  [ok       |-> errors = {},
         errors   |-> errors,
         warnings |-> UNION {items[i].warnings : i \in 1..Len(doc.timeline)},
         raised   |-> IF \E i \in 1..Len(doc.timeline) : items[i].raised # ""
                      THEN "TypeError" ELSE ""]

(***************************************************************************)
(* Context document: derived fields                                        *)
(***************************************************************************)
\* _fmt_month_year
fmt_month_year(d) == <<MONTHS_EN[month_of(d)], year_of(d)>>

\* _build_display_range: <<start text, what joins the two, end text>>
build_display_range(item, start_dt, end_dt) ==
    IF item.is_current = "true" \/ end_dt = NoneDate
    THEN <<fmt_month_year(start_dt), " - ", <<"Present">> >>
    ELSE <<fmt_month_year(start_dt), " - ", fmt_month_year(end_dt)>>

\* (x or "") of a JSON value
or_empty(x) == IF x = JsonNull THEN "" ELSE x

\* _build_display_title; the items carry no "degree" and no "title"
build_display_title(item) ==
    IF item.type = "work" THEN Strip(or_empty(item.role))
    ELSE IF item.type \in {"education", "project"} THEN ""
    ELSE Strip(or_empty(item.role))

\* _build_display_subtitle; the items carry no "organization"
build_display_subtitle(item) == Strip(or_empty(item.description))

\* .strip() raises AttributeError on a value that is not a string
display_raises(item) ==
    \/ item.description = NonStr
    \/ item.type \notin {"education", "project"} /\ item.role = NonStr

\* the body of the for loop of _tailor_timeline_items for one item
tailor_item(item) ==
    LET start_dt == parse_iso_date(item.start_date).date
        end_dt   == parse_iso_date(item.end_date).date
    IN  [item             |-> item,
         display_range    |-> IF start_dt # NoneDate
                              THEN build_display_range(item, start_dt, end_dt)
                              ELSE <<>>,
         display_title    |-> build_display_title(item),
         display_subtitle |-> build_display_subtitle(item),
         start_dt         |-> IF start_dt # NoneDate THEN start_dt ELSE DateMin,
         is_current       |-> IF item.is_current = "true" THEN 1 ELSE 0,
         dot_class        |-> ""]

\* a sort key that is the start date alone
tailored_start_less(a, b) == a.start_dt < b.start_dt

\* key=lambda x: (x["_is_current"], x["_start_dt"])  <  for two items
tailored_key_less(a, b) ==
    \/ a.is_current < b.is_current
    \/ a.is_current = b.is_current /\ a.start_dt < b.start_dt

\* tailored.sort(key=..., reverse=True): descending and stable
RECURSIVE tailored_insert(_, _)
tailored_insert(s, x) ==
    IF s = <<>> THEN <<x>>
    ELSE IF tailored_key_less(Head(s), x) THEN <<x>> \o s
    ELSE <<Head(s)>> \o tailored_insert(Tail(s), x)

RECURSIVE tailored_sort(_)
tailored_sort(s) ==
    IF s = <<>> THEN <<>>
    ELSE tailored_insert(tailored_sort(SubSeq(s, 1, Len(s) - 1)), s[Len(s)])

\* DOT_PALETTE[idx] if idx < len(DOT_PALETTE) else DOT_PALETTE[-1], idx from 0
dot_class(idx) ==
    IF idx < Len(DOT_PALETTE) THEN DOT_PALETTE[idx + 1] ELSE DOT_PALETTE[Len(DOT_PALETTE)]

\* _tailor_timeline_items: the exposed items, without the internal sort keys
tailor_timeline_items(items) ==
    LET sorted == tailored_sort([i \in 1..Len(items) |-> tailor_item(items[i])])
    IN  [i \in 1..Len(sorted) |->
            [item             |-> sorted[i].item,
             display_range    |-> sorted[i].display_range,
             display_title    |-> sorted[i].display_title,
             display_subtitle |-> sorted[i].display_subtitle,
             dot_class        |-> dot_class(i - 1)]]

(***************************************************************************)
(* Hobby background paths                                                  *)
(***************************************************************************)
\* A path is a sequence of chunks of characters. "static/" is "s" followed
\* by "tatic/": no other two chunks join into it, and no chunk but "images/"
\* begins with "images/", so matching on chunks is matching on characters.
Chunks == {"s", "tatic/", "images/", "x.jpg"}
Paths  == UNION {[1..n -> Chunks] : n \in 0..MaxPathLen}

StaticDir  == <<"s", "tatic/">>
IMAGE_PATH == <<"images/">>

\* str.startswith
startswith(p, q) == Len(p) >= Len(q) /\ SubSeq(p, 1, Len(q)) = q

\* bg.replace("static/", ""): every non-overlapping occurrence, left to right
RECURSIVE remove_static(_)
remove_static(p) ==
    IF p = <<>> THEN <<>>
    ELSE IF startswith(p, StaticDir)
         THEN remove_static(SubSeq(p, Len(StaticDir) + 1, Len(p)))
         ELSE <<Head(p)>> \o remove_static(Tail(p))

\* lines 436-442 of _build_derived: the background it stores for bg
normalize_background(bg) ==
    LET stripped == remove_static(bg)
    IN  IF ~startswith(stripped, IMAGE_PATH) THEN IMAGE_PATH \o stripped ELSE stripped

\* _build_derived raises when a display field of an item does
build_derived_raises(doc) == \E i \in 1..Len(doc.timeline) : display_raises(doc.timeline[i])

\* _build_derived: the timeline and the hobby backgrounds of the context
build_derived(doc) ==
    [timeline |-> tailor_timeline_items(doc.timeline),
     hobbies  |-> [h \in 1..Len(doc.hobbies) |-> normalize_background(doc.hobbies[h])]]

(***************************************************************************)
(* ContextManager                                                          *)
(***************************************************************************)
\* The timeline items of the documents the editor writes: a current
\* position, a finished one, a current one that has an end date, and one
\* that ends before it starts.
SampleItems ==
    { [type |-> "work", role |-> "Dev", description |-> " text ",
       start_date |-> 20200301, start_precision |-> "month", is_current |-> "true",
       end_date |-> NullDate, end_precision |-> JsonNull],
      [type |-> "work", role |-> "Dev", description |-> JsonNull,
       start_date |-> 20200101, start_precision |-> "year", is_current |-> "false",
       end_date |-> 20200301, end_precision |-> "month"],
      [type |-> "work", role |-> "Dev", description |-> JsonNull,
       start_date |-> 20200301, start_precision |-> "month", is_current |-> "true",
       end_date |-> 20200302, end_precision |-> "day"],
      [type |-> "work", role |-> "Dev", description |-> JsonNull,
       start_date |-> 20200301, start_precision |-> "month", is_current |-> "false",
       end_date |-> 20200101, end_precision |-> "year"] }

\* "static/images/x.jpg"
SampleBackground == <<"s", "tatic/", "images/", "x.jpg">>

\* What the editor may write into the context file. root is "malformed" for
\* text json.load rejects, "not_object" for a JSON value that is not an
\* object, "no_contact" for an object without the "contact" key and "ok" for
\* an object whose personal_info, professional_bio and contact are valid.
SampleDocs ==
    {[root |-> r, timeline |-> <<>>, hobbies |-> <<>>] :
        r \in {"malformed", "not_object", "no_contact"}}
    \cup {[root |-> "ok", timeline |-> tl, hobbies |-> <<SampleBackground>>] :
            tl \in UNION {[1..n -> SampleItems] : n \in 0..MaxItems}}

CtxMissing == [exists |-> FALSE, mtime |-> 0, doc |-> <<>>]

\* _load_json: the exception it raises, or "" and the object it returns
load_json ==
    IF ~ctx_file.exists THEN [raised |-> "FileNotFoundError", data |-> <<>>]
    ELSE IF ctx_file.doc.root = "malformed" THEN [raised |-> "JSONDecodeError", data |-> <<>>]
    ELSE IF ctx_file.doc.root = "not_object"
         THEN [raised |-> "ContextValidationError", data |-> <<>>]
         ELSE [raised |-> "", data |-> ctx_file.doc]

\* a failing call that records the mtime of the file it read all the same
Raise_recording(exc, result) ==
    /\ cm_raised' = exc
    /\ cm_result' = result
    /\ cm_mtime' = IF ctx_file.exists THEN ctx_file.mtime ELSE cm_mtime
    /\ UNCHANGED <<cm_timeline, cm_hobbies>>

\* the call raised exc before anything was assigned
Raise(exc, result) ==
    /\ cm_raised' = exc
    /\ cm_result' = result
    /\ UNCHANGED <<cm_mtime, cm_timeline, cm_hobbies>>

\* reload(force=True): load, validate, derive, assign, record the mtime
force_reload ==
    LET loaded == load_json
        result == validate(loaded.data)
    IN  /\ cm_loaded' = TRUE
        /\ IF loaded.raised # "" THEN Raise(loaded.raised, <<>>)
           ELSE IF result.raised # "" THEN Raise(result.raised, <<>>)
           ELSE IF ~result.ok THEN Raise("ContextValidationError", <<result>>)
           ELSE IF build_derived_raises(loaded.data) THEN Raise("AttributeError", <<result>>)
           ELSE /\ cm_timeline' = build_derived(loaded.data).timeline
                /\ cm_hobbies' = build_derived(loaded.data).hobbies
                /\ cm_mtime' = ctx_file.mtime
                /\ cm_raised' = ""
                /\ cm_result' = <<result>>

\* a refresh check that reloads only a file newer than the one recorded
reload_when_newer ==
    IF ~ctx_file.exists THEN Raise("FileNotFoundError", <<>>) /\ cm_loaded' = FALSE
    ELSE IF cm_mtime = NoneTs \/ ctx_file.mtime > cm_mtime THEN force_reload
    ELSE /\ cm_raised' = ""
         /\ cm_result' = <<>>
         /\ cm_loaded' = FALSE
         /\ UNCHANGED <<cm_mtime, cm_timeline, cm_hobbies>>

\* the body of reload_if_changed
reload_when_changed ==
    IF ~ctx_file.exists THEN Raise("FileNotFoundError", <<>>) /\ cm_loaded' = FALSE
    ELSE IF cm_mtime = NoneTs \/ ctx_file.mtime # cm_mtime THEN force_reload
    ELSE /\ cm_raised' = ""
         /\ cm_result' = <<>>
         /\ cm_loaded' = FALSE
         /\ UNCHANGED <<cm_mtime, cm_timeline, cm_hobbies>>

\* ContextManager(context_file): __init__ ends in reload(force=True); when
\* that raises there is no manager
Construct ==
    /\ cm_state # "ready"
    /\ cm_op' = "construct"
    /\ force_reload
    /\ cm_state' = IF cm_raised' = "" THEN "ready" ELSE "failed"
    /\ UNCHANGED ctx_file

\* ContextManager.reload
reload(force) ==
    /\ cm_state = "ready"
    /\ cm_op' = IF force THEN "reload(force=True)" ELSE "reload"
    /\ IF force THEN force_reload ELSE reload_when_changed
    /\ UNCHANGED <<ctx_file, cm_state>>

\* ContextManager.reload_if_changed
reload_if_changed ==
    /\ cm_state = "ready"
    /\ cm_op' = "reload_if_changed"
    /\ reload_when_changed
    /\ UNCHANGED <<ctx_file, cm_state>>

\* ContextManager.template_kwargs: a dict of the exposed fields as they are
template_kwargs ==
    /\ cm_state = "ready"
    /\ cm_op' = "template_kwargs"
    /\ cm_raised' = ""
    /\ cm_result' = <<>>
    /\ cm_loaded' = FALSE
    /\ UNCHANGED <<ctx_file, cm_state, cm_mtime, cm_timeline, cm_hobbies>>

\* the editor writes the document, which gets mtime m
CtxWrite(doc, m) ==
    /\ ctx_file' = [exists |-> TRUE, mtime |-> m, doc |-> doc]
    /\ ctx_file' # ctx_file
    /\ cm_op' = "change"
    /\ cm_raised' = ""
    /\ cm_result' = <<>>
    /\ cm_loaded' = FALSE
    /\ UNCHANGED <<cm_state, cm_mtime, cm_timeline, cm_hobbies>>

\* the file is removed
CtxDelete ==
    /\ ctx_file.exists
    /\ ctx_file' = CtxMissing
    /\ cm_op' = "change"
    /\ cm_raised' = ""
    /\ cm_result' = <<>>
    /\ cm_loaded' = FALSE
    /\ UNCHANGED <<cm_state, cm_mtime, cm_timeline, cm_hobbies>>


NextCtx ==
    \/ Construct /\ UNCHANGED <<engineVars, queryVars, kbVars, normVars>>
    \/ \E force \in BOOLEAN : reload(force) /\ UNCHANGED <<engineVars, queryVars, kbVars, normVars>>
    \/ reload_if_changed /\ UNCHANGED <<engineVars, queryVars, kbVars, normVars>>
    \/ template_kwargs /\ UNCHANGED <<engineVars, queryVars, kbVars, normVars>>
    \/ \E doc \in SampleDocs, m \in Times :
          CtxWrite(doc, m) /\ UNCHANGED <<engineVars, queryVars, kbVars, normVars>>
    \/ CtxDelete /\ UNCHANGED <<engineVars, queryVars, kbVars, normVars>>

\* before the application starts: no manager, and the file may not exist yet
InitOfCtx ==
    /\ ctx_file = CtxMissing
    /\ cm_state = "none"
    /\ cm_mtime = NoneTs
    /\ cm_timeline = <<>>
    /\ cm_hobbies = <<>>
    /\ cm_op = "init"
    /\ cm_raised = ""
    /\ cm_result = <<>>
    /\ cm_loaded = FALSE
    /\ IdleEngine /\ IdleQuery /\ IdleKB /\ IdleNorm

SpecCtx == InitOfCtx /\ [][NextCtx]_vars

\* the end date of an exposed item, and its start date
ExposedEnd(x)   == x.item.end_date
ExposedStart(x) == x.item.start_date

\* C9: every timeline item the manager exposes has no end date when it is
\* current, and an end date that is not before its start date when it has one.
C9_ExposedTimelineConsistent ==
    \A i \in 1..Len(cm_timeline) :
        /\ cm_timeline[i].item.is_current = "true" => ExposedEnd(cm_timeline[i]) = NullDate
        /\ ExposedEnd(cm_timeline[i]) # NullDate =>
              /\ parse_iso_date(ExposedEnd(cm_timeline[i])).date # NoneDate
              /\ parse_iso_date(ExposedStart(cm_timeline[i])).date # NoneDate
              /\ ExposedEnd(cm_timeline[i]) >= ExposedStart(cm_timeline[i])

\* after a failed reload of a document that breaks one of the two rules, the
\* manager still exposes a current item and a finished one
C9_Witness ==
    /\ cm_state = "ready" /\ cm_op = "reload" /\ cm_raised = "ContextValidationError"
    /\ cm_result # <<>>
    /\ \E e \in cm_result[1].errors : e.rule \in {"not_null_when_current", "end_before_start"}
    /\ \E i, j \in 1..Len(cm_timeline) :
          /\ cm_timeline[i].item.is_current = "true"
          /\ ExposedEnd(cm_timeline[j]) # NullDate

(***************************************************************************)
(* Construction over every document with one timeline item                 *)
(***************************************************************************)
\* the timeline items, over the values a date and a precision range over
AllItems ==
    LET RawDates      == {NullDate, BadFormatDate, 20200101, 20200301, 20200302, 20200230}
        RawPrecisions == {"year", "month", "day", "decade", JsonNull, JsonList}
    IN  [type : {"work", "hobby", JsonList}, role : {JsonNull, "Dev"},
         description : {JsonNull, " text ", NonStr},
         start_date : RawDates, start_precision : RawPrecisions,
         is_current : {"true", "false", JsonNull},
         end_date : RawDates, end_precision : RawPrecisions]

NextVal == Construct /\ UNCHANGED <<engineVars, queryVars, kbVars, normVars>>

\* the application starts over a context file that holds one timeline item
InitOfVal ==
    /\ ctx_file \in {[exists |-> TRUE, mtime |-> m,
                      doc |-> [root |-> "ok", timeline |-> <<it>>, hobbies |-> <<>>]] :
                        it \in AllItems, m \in {1}}
    /\ cm_state = "none"
    /\ cm_mtime = NoneTs
    /\ cm_timeline = <<>>
    /\ cm_hobbies = <<>>
    /\ cm_op = "init"
    /\ cm_raised = ""
    /\ cm_result = <<>>
    /\ cm_loaded = FALSE
    /\ IdleEngine /\ IdleQuery /\ IdleKB /\ IdleNorm

SpecVal == InitOfVal /\ [][NextVal]_vars

\* C7: constructing a ContextManager over a document succeeds exactly when
\* validate finds no error in the document.
C7_ConstructsIffNoErrors ==
    (cm_op = "construct" /\ cm_result # <<>>) =>
        (cm_state = "ready" <=> cm_result[1].errors = {})

\* a raw date that is a "YYYY-MM-DD" string
Dated(d) == d \notin {NullDate, BadFormatDate}

\* d is not the first day of the period that precision names
NonCanonical(d, precision) ==
    \/ precision = "year" /\ ~(month_of(d) = 1 /\ day_of(d) = 1)
    \/ precision = "month" /\ day_of(d) # 1

\* the error _check_precision_consistency appends for a date of that precision
PrecisionError(i, field, precision) ==
    [at |-> i, field |-> field, rule |-> IF precision = "year" THEN "precision_year"
                                         ELSE "precision_month"]

\* C8: validation reports an error for every timeline item that has a start
\* or end date which is not canonical for its precision (the precision error
\* itself when the date is a calendar date that validate checks), and no
\* precision error for a date of precision "day".
C8_NonCanonicalDatesRejected ==
    (cm_op = "construct" /\ cm_result # <<>>) =>
        \A i \in 1..Len(ctx_file.doc.timeline) :
            LET item == ctx_file.doc.timeline[i]
                errs == {e \in cm_result[1].errors : e.at = i}
            IN  /\ (Dated(item.start_date)
                    /\ NonCanonical(item.start_date, item.start_precision)) =>
                       /\ errs # {}
                       /\ valid_calendar_date(item.start_date) =>
                             PrecisionError(i, "start_date", item.start_precision) \in errs
                /\ (Dated(item.end_date)
                    /\ NonCanonical(item.end_date, item.end_precision)) =>
                       /\ errs # {}
                       /\ (valid_calendar_date(item.end_date) /\ item.is_current # "true") =>
                             PrecisionError(i, "end_date", item.end_precision) \in errs
                /\ item.start_precision = "day" =>
                       \A e \in errs : e.field = "start_date" =>
                           e.rule \notin {"precision_year", "precision_month"}
                /\ item.end_precision = "day" =>
                       \A e \in errs : e.field = "end_date" =>
                           e.rule \notin {"precision_year", "precision_month"}

\* validate ran over an item of year precision that starts in March and of
\* month precision that ends on the second of a month
C8_Witness ==
    /\ cm_op = "construct" /\ cm_result # <<>>
    /\ \E i \in 1..Len(ctx_file.doc.timeline) :
          /\ ctx_file.doc.timeline[i].start_precision = "year"
          /\ ctx_file.doc.timeline[i].start_date = 20200301
          /\ ctx_file.doc.timeline[i].is_current = "false"
          /\ ctx_file.doc.timeline[i].end_precision = "month"
          /\ ctx_file.doc.timeline[i].end_date = 20200302
          /\ PrecisionError(i, "start_date", "year") \in cm_result[1].errors
          /\ PrecisionError(i, "end_date", "month") \in cm_result[1].errors

(***************************************************************************)
(* Construction over long valid timelines                                  *)
(***************************************************************************)
\* A timeline holds at most MaxTimeline items.
MaxTimeline == 7

\* Valid items: two current positions, the later of year precision; a
\* finished position of day precision that started after both; and a
\* finished one that started before them.
TimelineItems ==
    { [type |-> "work", role |-> "Dev", description |-> JsonNull,
       start_date |-> 20200301, start_precision |-> "month", is_current |-> "true",
       end_date |-> NullDate, end_precision |-> JsonNull],
      [type |-> "work", role |-> "Dev", description |-> JsonNull,
       start_date |-> 20210101, start_precision |-> "year", is_current |-> "true",
       end_date |-> NullDate, end_precision |-> JsonNull],
      [type |-> "work", role |-> "Dev", description |-> JsonNull,
       start_date |-> 20220305, start_precision |-> "day", is_current |-> "false",
       end_date |-> 20220417, end_precision |-> "day"],
      [type |-> "work", role |-> "Dev", description |-> JsonNull,
       start_date |-> 20200101, start_precision |-> "year", is_current |-> "false",
       end_date |-> 20200301, end_precision |-> "month"] }

\* the application starts over a context file that holds such a timeline
InitOfTimeline ==
    /\ IdleEngine /\ IdleQuery /\ IdleKB /\ IdleNorm
    /\ ctx_file \in {[exists |-> TRUE, mtime |-> 1,
                      doc |-> [root |-> "ok", timeline |-> tl, hobbies |-> <<>>]] :
                        tl \in UNION {[1..n -> TimelineItems] : n \in 0..MaxTimeline}}
    /\ cm_state = "none"
    /\ cm_mtime = NoneTs
    /\ cm_timeline = <<>>
    /\ cm_hobbies = <<>>
    /\ cm_op = "init"
    /\ cm_raised = ""
    /\ cm_result = <<>>
    /\ cm_loaded = FALSE

SpecTimeline == InitOfTimeline /\ [][NextVal]_vars

(***************************************************************************)
(* Normalising a background path again                                     *)
(***************************************************************************)
\* bg_in is normalised, and what comes out is normalised once more
NormalizeBackground ==
    /\ bg_steps < 2
    /\ bg_steps' = bg_steps + 1
    /\ IF bg_steps = 0
       THEN bg_once' = normalize_background(bg_in) /\ UNCHANGED bg_twice
       ELSE bg_twice' = normalize_background(bg_once) /\ UNCHANGED bg_once
    /\ UNCHANGED bg_in


NextNorm == NormalizeBackground /\ UNCHANGED <<engineVars, queryVars, kbVars, ctxVars>>

InitOfNorm ==
    /\ bg_in \in Paths
    /\ bg_once = <<>>
    /\ bg_twice = <<>>
    /\ bg_steps = 0
    /\ IdleEngine /\ IdleQuery /\ IdleKB /\ IdleCtx

SpecNorm == InitOfNorm /\ [][NextNorm]_vars

\* C10: normalising a background path that is already normalised gives the
\* same path, whatever the path, and "static/images/x.jpg" gives
\* "images/x.jpg" both times.
C10_NormalizationIdempotent ==
    bg_steps = 2 =>
        /\ bg_twice = bg_once
        /\ bg_in = SampleBackground => bg_once = <<"images/", "x.jpg">>

(***************************************************************************)
(* Queries over a library of three files                                   *)
(***************************************************************************)
\* get_related_posts and get_featured_projects are asked for at most
\* MaxLimit entities.
MaxLimit == 2

\* the *.md files of the library
LibraryNames == FileNames \cup {[name |-> "c", prefix |-> NoDate, stem |-> "c"]}

\* What a file of the library may hold. Two of them share a date and differ
\* in title, two carry the slug "a", one is a draft without date and slug,
\* one is featured, one has a date that is not YYYY-MM-DD.
LibraryContents ==
    Contents \cup
    { [readable |-> TRUE, title |-> "Beta", date |-> 20240102, slug |-> "",
       draft |-> FALSE, tags |-> <<"go", "Py", "rust">>, featured |-> TRUE],
      [readable |-> TRUE, title |-> "Alpha", date |-> 20240305, slug |-> "",
       draft |-> FALSE, tags |-> <<"Py", "Go">>, featured |-> FALSE],
      [readable |-> TRUE, title |-> "", date |-> MalformedDate, slug |-> "a",
       draft |-> FALSE, tags |-> <<"rust", "Go">>, featured |-> FALSE] }

\* len(set(t.lower() for t in p.tags) & set(t.lower() for t in post.tags))
shared_tags(p, post) ==
    LET lower_tags(q) == {Lower(q.tags[k]) : k \in 1..Len(q.tags)}
    IN  Cardinality(lower_tags(p) \cap lower_tags(post))

\* the for loop of get_related_posts: scored_posts, as [score, post]
RECURSIVE score_posts(_, _)
score_posts(all_posts, post) ==
    IF all_posts = <<>> THEN <<>>
    ELSE LET p    == Head(all_posts)
             rest == score_posts(Tail(all_posts), post)
         IN  IF p.slug = post.slug THEN rest
             ELSE IF shared_tags(p, post) > 0
                  THEN <<[score |-> shared_tags(p, post), post |-> p]>> \o rest
                  ELSE rest

\* scored_posts.sort(key=lambda x: x[0], reverse=True): descending and stable
RECURSIVE insert_by_score(_, _)
insert_by_score(s, x) ==
    IF s = <<>> THEN <<x>>
    ELSE IF Head(s).score < x.score THEN <<x>> \o s
    ELSE <<Head(s)>> \o insert_by_score(Tail(s), x)

RECURSIVE sort_by_score(_)
sort_by_score(s) ==
    IF s = <<>> THEN <<>>
    ELSE insert_by_score(sort_by_score(SubSeq(s, 1, Len(s) - 1)), s[Len(s)])

\* s[:n] for n >= 0
Take(s, n) == SubSeq(s, 1, IF n < Len(s) THEN n ELSE Len(s))

\* a ranking that leaves the scored posts in collection order
related_posts_unsorted(posts, post, limit) ==
    LET scored == Take(score_posts(filter_drafts(posts, FALSE), post), limit)
    IN  [i \in 1..Len(scored) |-> scored[i].post]

\* get_related_posts over the list posts the loader handed back
related_posts(posts, post, limit) ==
    LET scored == Take(sort_by_score(score_posts(filter_drafts(posts, FALSE), post)), limit)
    IN  [i \in 1..Len(scored) |-> scored[i].post]

\* a selection that never pads
featured_projects_only(posts, limit) ==
    LET IsFeatured(p) == p.featured
    IN  Take(SelectSeq(filter_drafts(posts, FALSE), IsFeatured), limit)

\* get_featured_projects over the list posts the loader handed back
featured_projects(posts, limit) ==
    LET IsFeatured(p)  == p.featured
        NotFeatured(p) == ~p.featured
        projects     == filter_drafts(posts, FALSE)
        featured     == SelectSeq(projects, IsFeatured)
        non_featured == SelectSeq(projects, NotFeatured)
        extended     == IF Len(featured) < limit
                        THEN featured \o Take(non_featured, limit - Len(featured))
                        ELSE featured
    IN  Take(extended, limit)

\* the arguments of a query; the ones it does not take keep these values
NoArg == [ref |-> <<>>, limit |-> 0, tag |-> "", slug |-> "", include_drafts |-> FALSE]

\* the lru_cache slot answers the call of _load_all_posts_cached
cache_hit ==
    /\ ~should_refresh_cache
    /\ lru # <<>>
    /\ lru[1].key = (IF cache_timestamp = NoneTs THEN 0 ELSE cache_timestamp)

\* the enumeration orders glob may take in this request; the order of the
\* last scan stays on record when the slot answers
QueryOrders == IF cache_hit THEN {scan_order} ELSE ScanOrders

\* the list _load_all_posts_cached hands to this request
fetched(order) == IF cache_hit THEN lru[1].val ELSE load_all_posts(order)

\* A query fetches posts as every request does and records what it was
\* asked and what it returned.
Answered(op, arg, order, ret) ==
    /\ fetch_posts(fetched(order))
    /\ Served(fetched(order))
    /\ scan_order' = order
    /\ q_op' = op
    /\ q_arg' = arg
    /\ q_ret' = ret
    /\ UNCHANGED <<threads, edits, instances>>

\* get_all_posts(include_drafts), its result recorded
query_all(include_drafts) ==
    \E order \in QueryOrders :
        Answered("get_all_posts", [NoArg EXCEPT !.include_drafts = include_drafts],
                 order, filter_drafts(fetched(order), include_drafts))

\* get_post_by_slug(slug), its result recorded
query_by_slug(slug) ==
    \E order \in QueryOrders :
        Answered("get_post_by_slug", [NoArg EXCEPT !.slug = slug],
                 order, post_by_slug(fetched(order), slug))

\* get_posts_by_tag(t), its result recorded
query_by_tag(t) ==
    \E order \in QueryOrders :
        Answered("get_posts_by_tag", [NoArg EXCEPT !.tag = t],
                 order, posts_by_tag(fetched(order), t))

\* BlogEngine.get_related_posts(post, limit), for a post that the request
\* before handed out
get_related_posts(i, limit) ==
    /\ engine = "blog"
    /\ lastOp = "request"
    /\ i \in 1..Len(coll)
    /\ \E order \in QueryOrders :
          Answered("get_related_posts", [NoArg EXCEPT !.ref = <<coll[i]>>, !.limit = limit],
                   order, related_posts(fetched(order), coll[i], limit))

\* ProjectsEngine.get_featured_projects(limit)
get_featured_projects(limit) ==
    /\ engine = "projects"
    /\ \E order \in QueryOrders :
          Answered("get_featured_projects", [NoArg EXCEPT !.limit = limit],
                   order, featured_projects(fetched(order), limit))

\* an engine over a directory that holds any of the library's files
InitOfQuery ==
    /\ engine \in {"blog", "projects"}
    /\ dir_exists = TRUE
    /\ dir_mtime = 1
    /\ files \in [LibraryNames ->
                    {Absent} \cup {[present |-> TRUE, mtime |-> 1, content |-> c] :
                                      c \in LibraryContents}]
    /\ cache_timestamp = NoneTs
    /\ lru = <<>>
    /\ lastOp = "init"
    /\ coll = <<>>
    /\ scanned = FALSE
    /\ consecutive = FALSE
    /\ edited = FALSE
    /\ IdleQuery /\ IdleKB /\ IdleCtx /\ IdleNorm

NextQuery ==
    \/ \E d \in BOOLEAN : query_all(d) /\ UNCHANGED <<kbVars, ctxVars, normVars>>
    \/ \E s \in Slugs : query_by_slug(s) /\ UNCHANGED <<kbVars, ctxVars, normVars>>
    \/ \E t \in Tags : query_by_tag(t) /\ UNCHANGED <<kbVars, ctxVars, normVars>>
    \/ \E i \in 1..Cardinality(LibraryNames), limit \in 0..MaxLimit :
          get_related_posts(i, limit) /\ UNCHANGED <<kbVars, ctxVars, normVars>>
    \/ \E limit \in 0..MaxLimit :
          get_featured_projects(limit) /\ UNCHANGED <<kbVars, ctxVars, normVars>>

SpecQuery == InitOfQuery /\ [][NextQuery]_vars

(***************************************************************************)
(* Concurrent requests: get_all_posts line by line                         *)
(***************************************************************************)
\* At most MaxEdits edits are made while the requests run.
MaxEdits == 1

\* the request threads of the server
Threads == {"t1", "t2"}

\* a thread that is not inside get_all_posts; ret is what its last call
\* returned (<<>> when it has not returned yet), began the number of edits
\* made before that call started
Resting ==
    [pc |-> "idle", key |-> NoneTs, todo |-> <<>>, posts |-> <<>>, ret |-> <<>>, began |-> 0]

\* the locals of thread t become r; the directory and the records of the
\* other specifications stay as they are
Step(t, r) ==
    /\ threads' = [threads EXCEPT ![t] = r]
    /\ UNCHANGED <<engine, dir_exists, dir_mtime, files, lastOp, coll, scanned,
                   consecutive, edited, scan_order, q_op, q_arg, q_ret, edits,
                   instances>>

\* line 275: if self._should_refresh_cache()
Begin(t) ==
    /\ threads[t].pc = "idle"
    /\ Step(t, [Resting EXCEPT !.pc = IF should_refresh_cache THEN "clear" ELSE "key",
                               !.began = edits.n])
    /\ UNCHANGED <<cache_timestamp, lru>>

\* line 276, cache_clear(), and the call of _get_posts_dir_mtime of line 277
Clear(t) ==
    /\ threads[t].pc = "clear"
    /\ lru' = <<>>
    /\ Step(t, [threads[t] EXCEPT !.pc = "stamp", !.key = get_posts_dir_mtime])
    /\ UNCHANGED cache_timestamp

\* line 277: the assignment to self._cache_timestamp
Stamp(t) ==
    /\ threads[t].pc = "stamp"
    /\ cache_timestamp' = threads[t].key
    /\ Step(t, [threads[t] EXCEPT !.pc = "key"])
    /\ UNCHANGED lru

\* line 279: the argument self._cache_timestamp or 0
Key(t) ==
    /\ threads[t].pc = "key"
    /\ Step(t, [threads[t] EXCEPT !.pc = "call",
                                  !.key = IF cache_timestamp = NoneTs THEN 0
                                          ELSE cache_timestamp])
    /\ UNCHANGED <<cache_timestamp, lru>>

\* a lookup that hands out whatever the slot holds
cache_lookup_any(key) == IF lru # <<>> THEN <<lru[1].val>> ELSE <<>>

\* the lookup of the lru_cache wrapper: <<value>> on a hit, <<>> on a miss
cache_lookup(key) == IF lru # <<>> /\ lru[1].key = key THEN <<lru[1].val>> ELSE <<>>

\* line 279: the call. A hit returns the stored list; a miss enters the body
\* of _load_all_posts_cached, where glob lists the files in some order.
Call(t) ==
    /\ threads[t].pc = "call"
    /\ IF cache_lookup(threads[t].key) # <<>>
       THEN Step(t, [threads[t] EXCEPT !.pc = "idle", !.ret = cache_lookup(threads[t].key)])
       ELSE \E order \in ScanOrders :
               Step(t, [threads[t] EXCEPT !.pc = "scan", !.todo = order, !.posts = <<>>])
    /\ UNCHANGED <<cache_timestamp, lru>>

\* lines 254-262: one turn of the loop parses the next file as it is now;
\* after the loop the list is sorted and returned, and the wrapper stores it
\* under the key of the call.
Scan(t) ==
    /\ threads[t].pc = "scan"
    /\ IF threads[t].todo # <<>>
       THEN /\ Step(t, [threads[t] EXCEPT !.todo = Tail(@),
                                          !.posts = @ \o parse_unit(Head(threads[t].todo))])
            /\ UNCHANGED lru
       ELSE /\ lru' = <<[key |-> threads[t].key, val |-> sort_desc(threads[t].posts)]>>
            /\ Step(t, [threads[t] EXCEPT !.pc = "idle", !.todo = <<>>, !.posts = <<>>,
                                          !.ret = <<sort_desc(threads[t].posts)>>])
    /\ UNCHANGED cache_timestamp

\* The editor rewrites or deletes a file while requests are running, in the
\* clock tick of the last change or in the next one.
Edit ==
    /\ edits.n < MaxEdits
    /\ \/ \E f \in FileNames, c \in Contents \ {Unreadable} :
             \E m \in {get_posts_dir_mtime, get_posts_dir_mtime + 1} :
                 files[f].present /\ WriteFile(f, c, m, dir_mtime)
       \/ \E f \in FileNames :
             \E t \in {get_posts_dir_mtime, get_posts_dir_mtime + 1} : DeleteFile(f, t)
    /\ edits' = [n |-> edits.n + 1,
                 later |-> edits.later /\ get_posts_dir_mtime' > get_posts_dir_mtime]
    /\ UNCHANGED <<threads, scan_order, q_op, q_arg, q_ret, instances>>

\* a blog engine just constructed over a directory with two published posts
\* of the same frontmatter
InitOfConc ==
    /\ engine = "blog"
    /\ dir_exists = TRUE
    /\ dir_mtime = 1
    /\ \E c \in Contents :
          /\ c.readable /\ ~c.draft
          /\ files = [f \in FileNames |-> [present |-> TRUE, mtime |-> 1, content |-> c]]
    /\ cache_timestamp = NoneTs
    /\ lru = <<>>
    /\ lastOp = "init"
    /\ coll = <<>>
    /\ scanned = FALSE
    /\ consecutive = FALSE
    /\ edited = FALSE
    /\ scan_order = <<>>
    /\ q_op = "none"
    /\ q_arg = <<>>
    /\ q_ret = <<>>
    /\ threads = [t \in Threads |-> Resting]
    /\ edits = [n |-> 0, later |-> TRUE]
    /\ instances = <<>>
    /\ IdleKB /\ IdleCtx /\ IdleNorm

NextConc ==
    \/ \E t \in Threads : Begin(t) /\ UNCHANGED <<kbVars, ctxVars, normVars>>
    \/ \E t \in Threads : Clear(t) /\ UNCHANGED <<kbVars, ctxVars, normVars>>
    \/ \E t \in Threads : Stamp(t) /\ UNCHANGED <<kbVars, ctxVars, normVars>>
    \/ \E t \in Threads : Key(t) /\ UNCHANGED <<kbVars, ctxVars, normVars>>
    \/ \E t \in Threads : Call(t) /\ UNCHANGED <<kbVars, ctxVars, normVars>>
    \/ \E t \in Threads : Scan(t) /\ UNCHANGED <<kbVars, ctxVars, normVars>>
    \/ Edit /\ UNCHANGED <<kbVars, ctxVars, normVars>>

SpecConc == InitOfConc /\ [][NextConc]_vars

(***************************************************************************)
(* reload while the editor writes the file                                 *)
(***************************************************************************)
\* reload(force=True) touches the file twice: _load_json reads it (line 243)
\* and os.path.getmtime stats it (line 265). threads.pc is where the call
\* is: "idle" outside, "load" before line 243, "record" before line 265.
\* The file is never removed here.

\* the call moves to pc; the records of the other specifications stay
reload_at(pc) ==
    /\ threads' = [pc |-> pc]
    /\ UNCHANGED <<engineVars, kbVars, normVars, scan_order, q_op, q_arg, q_ret, edits,
                   instances, ctx_file, cm_state>>

\* reload(force) is called: lines 240-241 and 229-237 when force is false
reload_begin(force) ==
    /\ threads.pc = "idle"
    /\ cm_op' = IF force THEN "reload(force=True)" ELSE "reload_if_changed"
    /\ cm_raised' = ""
    /\ cm_result' = <<>>
    /\ cm_loaded' = FALSE
    /\ reload_at(IF force \/ cm_mtime = NoneTs \/ ctx_file.mtime # cm_mtime
                 THEN "load" ELSE "idle")
    /\ UNCHANGED <<cm_mtime, cm_timeline, cm_hobbies>>

\* lines 243-263: the file is read as it is now, validated, and the fields
\* are assigned; a failure ends the call
reload_load ==
    LET loaded == load_json
        result == validate(loaded.data)
        exc    == IF loaded.raised # "" THEN loaded.raised
                  ELSE IF result.raised # "" THEN result.raised
                  ELSE IF ~result.ok THEN "ContextValidationError"
                  ELSE IF build_derived_raises(loaded.data) THEN "AttributeError"
                  ELSE ""
    IN  /\ threads.pc = "load"
        /\ cm_loaded' = TRUE
        /\ cm_raised' = exc
        /\ cm_result' = IF loaded.raised = "" /\ result.raised = "" THEN <<result>> ELSE <<>>
        /\ IF exc # ""
           THEN reload_at("idle") /\ UNCHANGED <<cm_timeline, cm_hobbies>>
           ELSE /\ cm_timeline' = build_derived(loaded.data).timeline
                /\ cm_hobbies' = build_derived(loaded.data).hobbies
                /\ reload_at("record")
        /\ UNCHANGED <<cm_mtime, cm_op>>

\* line 265: self._mtime = os.path.getmtime(self.context_file), of the file
\* as it is now
reload_record ==
    /\ threads.pc = "record"
    /\ cm_mtime' = ctx_file.mtime
    /\ reload_at("idle")
    /\ UNCHANGED <<cm_timeline, cm_hobbies, cm_op, cm_raised, cm_result, cm_loaded>>

\* the editor saves another document; the clock has moved on since the
\* file was last written. edits.inside records that a write fell between
\* the read of line 243 and the stat of line 265 of some call.
EditorWrite(doc) ==
    /\ edits.n < MaxEdits
    /\ doc # ctx_file.doc
    /\ ctx_file' = [exists |-> TRUE, mtime |-> ctx_file.mtime + 1, doc |-> doc]
    /\ edits' = [n |-> edits.n + 1, inside |-> edits.inside \/ threads.pc = "record"]
    /\ cm_op' = IF threads.pc = "idle" THEN "change" ELSE cm_op
    /\ UNCHANGED <<engineVars, kbVars, normVars, scan_order, q_op, q_arg, q_ret, threads,
                   instances, cm_state, cm_mtime, cm_timeline, cm_hobbies, cm_raised, cm_result,
                   cm_loaded>>

\* a manager constructed over a valid context file, and no call under way
InitOfRace ==
    /\ IdleEngine /\ IdleKB /\ IdleNorm
    /\ scan_order = <<>> /\ q_op = "none" /\ q_arg = <<>> /\ q_ret = <<>>
    /\ threads = [pc |-> "idle"]
    /\ edits = [n |-> 0, inside |-> FALSE]
    /\ instances = <<>>
    /\ \E doc \in SampleDocs :
          /\ doc.root = "ok" /\ validate(doc).ok /\ ~build_derived_raises(doc)
          /\ ctx_file = [exists |-> TRUE, mtime |-> 1, doc |-> doc]
          /\ cm_timeline = build_derived(doc).timeline
          /\ cm_hobbies = build_derived(doc).hobbies
          /\ cm_result = <<validate(doc)>>
    /\ cm_state = "ready"
    /\ cm_mtime = 1
    /\ cm_op = "construct"
    /\ cm_raised = ""
    /\ cm_loaded = TRUE

NextRace ==
    \/ \E force \in BOOLEAN : reload_begin(force)
    \/ reload_load
    \/ reload_record
    \/ \E doc \in SampleDocs : EditorWrite(doc)

SpecRace == InitOfRace /\ [][NextRace]_vars

(***************************************************************************)
(* Two engines of one class                                                *)
(***************************************************************************)
\* @lru_cache(maxsize=1) decorates the function _load_all_posts_cached in the
\* class body, so the class has one cache: its one slot is keyed by
\* (self, cache_key), and cache_clear() empties it whoever calls it. lru is
\* that slot. Each engine has a directory of its own, which holds one file
\* and is not changed, and a _cache_timestamp of its own.
Instances == {"one", "two"}

\* the body of _load_all_posts_cached run by engine i
instance_load(i) ==
    sort_desc(IF engine = "blog"
              THEN parse_post(instances[i].file, instances[i].content, instances[i].mtime)
              ELSE parse_project(instances[i].file, instances[i].content, instances[i].mtime))

\* get_all_posts() of engine i (lines 275-284); _get_posts_dir_mtime is the
\* tick the directory and its file carry
instance_get_all(i) ==
    LET mtime   == instances[i].mtime
        refresh == \/ instances[i].cache_timestamp = NoneTs
                   \/ mtime > instances[i].cache_timestamp
        ts      == IF refresh THEN mtime ELSE instances[i].cache_timestamp
        key     == <<i, ts>>
        slot    == IF refresh THEN <<>> ELSE lru
        hit     == slot # <<>> /\ slot[1].key = key
        posts   == IF hit THEN slot[1].val ELSE instance_load(i)
    IN  /\ instances' = [instances EXCEPT ![i].cache_timestamp = ts]
        /\ lru' = <<[key |-> key, val |-> posts]>>
        /\ scanned' = ~hit
        /\ q_op' = "get_all"
        /\ q_arg' = i
        /\ q_ret' = filter_drafts(posts, FALSE)
        /\ UNCHANGED <<engine, dir_exists, dir_mtime, files, cache_timestamp, lastOp, coll,
                       consecutive, edited, scan_order, threads, edits, kbVars, ctxVars,
                       normVars>>

\* clear_cache() of engine i (lines 394-397)
instance_clear_cache(i) ==
    /\ lru' = <<>>
    /\ instances' = [instances EXCEPT ![i].cache_timestamp = NoneTs]
    /\ scanned' = FALSE
    /\ q_op' = "clear_cache"
    /\ q_arg' = i
    /\ q_ret' = <<>>
    /\ UNCHANGED <<engine, dir_exists, dir_mtime, files, cache_timestamp, lastOp, coll,
                   consecutive, edited, scan_order, threads, edits, kbVars, ctxVars,
                   normVars>>

\* two engines just constructed, each over a directory with one file
InitOfTwo ==
    /\ engine \in {"blog", "projects"}
    /\ dir_exists = FALSE /\ dir_mtime = 0 /\ files = <<>>
    /\ cache_timestamp = NoneTs
    /\ lru = <<>>
    /\ lastOp = "init" /\ coll = <<>>
    /\ scanned = FALSE /\ consecutive = FALSE /\ edited = FALSE
    /\ scan_order = <<>> /\ q_op = "none" /\ q_arg = <<>> /\ q_ret = <<>>
    /\ threads = <<>> /\ edits = <<>>
    /\ instances \in [Instances ->
                        {[file |-> f, content |-> c, mtime |-> m, cache_timestamp |-> NoneTs] :
                            f \in FileNames, c \in Contents, m \in Times}]
    /\ IdleKB /\ IdleCtx /\ IdleNorm

NextTwo ==
    \/ \E i \in Instances : instance_get_all(i)
    \/ \E i \in Instances : instance_clear_cache(i)

SpecTwo == InitOfTwo /\ [][NextTwo]_vars

(***************************************************************************)
(* Claims about the queries                                                *)
(***************************************************************************)
\* the number of tags p and q share when case is ignored
SharedCount(p, q) ==
    Cardinality({x \in {Lower(p.tags[i]) : i \in DOMAIN p.tags} :
                    \E j \in DOMAIN q.tags : Lower(q.tags[j]) = x})

\* s can be obtained from t by deleting elements
RECURSIVE IsSubSeq(_, _)
IsSubSeq(s, t) ==
    IF s = <<>> THEN TRUE
    ELSE IF t = <<>> THEN FALSE
    ELSE IF Head(s) = Head(t) THEN IsSubSeq(Tail(s), Tail(t))
    ELSE IsSubSeq(s, Tail(t))

\* C11: get_related_posts(post, limit) returns at most limit posts, none of
\* them the reference post or a draft, each sharing at least one tag with
\* the reference when case is ignored, in descending order of the number of
\* shared tags, posts with the same number in the order of the date-sorted
\* collection.
C11_RelatedRanked ==
    q_op = "get_related_posts" =>
        LET ref == q_arg.ref[1]
            WithScore(n) == LET Scores(p) == SharedCount(p, ref) = n
                            IN  SelectSeq(q_ret, Scores)
        IN  /\ Len(q_ret) <= q_arg.limit
            /\ \A k \in 1..Len(q_ret) :
                  /\ q_ret[k] # ref
                  /\ ~q_ret[k].is_draft
                  /\ SharedCount(q_ret[k], ref) >= 1
                  /\ \E i \in 1..Len(coll) : coll[i] = q_ret[k]
            /\ \A k, l \in 1..Len(q_ret) :
                  k < l => SharedCount(q_ret[k], ref) >= SharedCount(q_ret[l], ref)
            /\ \A n \in 1..3 : IsSubSeq(WithScore(n), coll)

\* two related posts were returned, the one sharing more tags first although
\* it stands later in the collection
C11_Witness ==
    /\ q_op = "get_related_posts"
    /\ Len(q_ret) = 2
    /\ SharedCount(q_ret[1], q_arg.ref[1]) > SharedCount(q_ret[2], q_arg.ref[1])
    /\ \E i, j \in 1..Len(coll) : i < j /\ coll[i] = q_ret[2] /\ coll[j] = q_ret[1]

\* C12: get_featured_projects(limit) returns the featured non-draft projects
\* first, in collection order, then the most recent non-featured non-draft
\* projects until limit is reached or no project is left, and never more
\* than limit.
C12_FeaturedThenRecent ==
    q_op = "get_featured_projects" =>
        LET Shown(p)    == ~p.is_draft /\ p.featured
            Padding(p)  == ~p.is_draft /\ ~p.featured
            featured    == SelectSeq(coll, Shown)
            recent      == SelectSeq(coll, Padding)
            limit       == q_arg.limit
            total       == Len(featured) + Len(recent)
            lead        == IF Len(featured) < limit THEN Len(featured) ELSE limit
        IN  /\ Len(q_ret) <= limit
            /\ Len(q_ret) = (IF total < limit THEN total ELSE limit)
            /\ SubSeq(q_ret, 1, lead) = SubSeq(featured, 1, lead)
            /\ SubSeq(q_ret, lead + 1, Len(q_ret)) = SubSeq(recent, 1, Len(q_ret) - lead)

\* a featured project was returned ahead of a non-featured one that the
\* collection lists before it
C12_Witness ==
    /\ q_op = "get_featured_projects"
    /\ Len(q_ret) = 2
    /\ q_ret[1].featured
    /\ ~q_ret[2].featured
    /\ \E i, j \in 1..Len(coll) : i < j /\ coll[i] = q_ret[2] /\ coll[j] = q_ret[1]

\* C13: get_posts_by_tag(tag) / get_projects_by_tag(tag) returns exactly the
\* non-draft entities that carry a tag equal to the query when case is
\* ignored, in collection order, and every case variant of the query gets the
\* same answer.
C13_ByTagIgnoresCase ==
    q_op = "get_posts_by_tag" =>
        LET Tagged(p) == /\ ~p.is_draft
                         /\ \E i \in DOMAIN p.tags : Lower(p.tags[i]) = Lower(q_arg.tag)
        IN  /\ q_ret = SelectSeq(coll, Tagged)
            /\ \A variant \in Tags :
                  Lower(variant) = Lower(q_arg.tag) => posts_by_tag(coll, variant) = q_ret

\* the query "GO" returned an entity whose tag is written "go" or "Go" while
\* the collection also holds a draft with the tag
C13_Witness ==
    /\ q_op = "get_posts_by_tag"
    /\ q_arg.tag = "GO"
    /\ \E k \in 1..Len(q_ret) : \A i \in DOMAIN q_ret[k].tags : q_ret[k].tags[i] # "GO"
    /\ \E i \in 1..Len(coll) : coll[i].is_draft /\ coll[i].tags[1] = "GO"

\* the file a unit of the collection was parsed from
FileOf(u) == CHOOSE f \in LibraryNames : f.name = u.file

\* C14: for posts and projects alike the date of a unit is the frontmatter
\* date when the file gives one, else the date of the YYYY-MM-DD prefix of
\* the file name, else the modification time for a post and no date for a
\* project.
C14_DatePrecedence ==
    lastOp = "request" =>
        \A i \in 1..Len(coll) :
            LET u == coll[i]
                f == FileOf(u)
                c == files[f].content
            IN  c.date # MalformedDate =>
                    u.date = (IF c.date # NoDate THEN c.date
                              ELSE IF f.prefix # NoDate THEN f.prefix
                              ELSE IF engine = "blog" THEN date_fromtimestamp(files[f].mtime)
                              ELSE NoDate)

\* C14 holds of posts
C14_PostDatePrecedence == engine = "blog" => C14_DatePrecedence

\* C15: for posts and projects alike the slug of a unit is the frontmatter
\* slug when the file gives one, else the file name stem with a leading
\* YYYY-MM-DD- prefix stripped, else the bare stem.
C15_SlugPrecedence ==
    lastOp = "request" =>
        \A i \in 1..Len(coll) :
            LET u == coll[i]
                f == FileOf(u)
                c == files[f].content
            IN  u.slug = (IF c.slug # "" THEN c.slug
                          ELSE IF f.prefix # NoDate THEN f.stem
                          ELSE f.name)

\* C15 holds of posts
C15_PostSlugPrecedence == engine = "blog" => C15_SlugPrecedence

\* s is in the order the claim C16 describes
SortedByDate(s) ==
    \A k, l \in 1..Len(s) :
        k < l =>
            IF engine = "blog"
            THEN s[k].date >= s[l].date
            ELSE LET dk == IF s[k].date = NoDate THEN DatetimeMin ELSE s[k].date
                     dl == IF s[l].date = NoDate THEN DatetimeMin ELSE s[l].date
                 IN  /\ dk >= dl
                     /\ s[k].date = NoDate => s[l].date = NoDate
                     /\ dk = dl => StrRank(s[k].title) >= StrRank(s[l].title)

\* C16: every collection get_all returns is sorted by date descending; among
\* projects one without date comes after all dated ones (it sorts as the
\* minimum date) and projects of equal date are ordered by title descending.
\* coll is what get_all(include_drafts=True) returns, q_ret what the recorded
\* call returned.
C16_SortedByDateDescending ==
    /\ lastOp = "request" => SortedByDate(coll)
    /\ q_op = "get_all_posts" => SortedByDate(q_ret)

\* three projects were returned: two of one date with different titles, then
\* one without date, although glob listed the undated one first
C16_Witness ==
    /\ engine = "projects"
    /\ q_op = "get_all_posts"
    /\ Len(q_ret) = 3
    /\ q_ret[1].date = q_ret[2].date
    /\ q_ret[1].title # q_ret[2].title
    /\ q_ret[3].date = NoDate
    /\ scan_order[1].name = q_ret[3].file

\* the place of the file named name in the last directory listing
ScanPos(name) == CHOOSE i \in 1..Len(scan_order) : scan_order[i].name = name

\* the units of the collection that carry the slug asked for
SlugMatches ==
    LET Same(u) == u.slug = q_arg.slug
    IN  SelectSeq(coll, Same)

\* C20 as stated: of several units with one slug, get_by_slug returns the
\* one that comes first in file-scan (directory enumeration) order.
C20_FirstInScanOrder ==
    (q_op = "get_post_by_slug" /\ SlugMatches # <<>>) =>
        /\ q_ret # <<>>
        /\ \A k \in 1..Len(SlugMatches) :
              ScanPos(q_ret[1].file) <= ScanPos(SlugMatches[k].file)

\* C20, amended: of several units with one slug, get_by_slug returns the one
\* that comes first in the sorted collection (the most recent one); file-scan
\* order decides only between units whose sort keys are equal.
C20_FirstInCollection ==
    q_op = "get_post_by_slug" =>
        IF SlugMatches = <<>> THEN q_ret = <<>>
        ELSE /\ q_ret = <<SlugMatches[1]>>
             /\ \A k \in 2..Len(SlugMatches) :
                   /\ ~key_less(q_ret[1], SlugMatches[k])
                   /\ ~key_less(SlugMatches[k], q_ret[1]) =>
                         ScanPos(q_ret[1].file) < ScanPos(SlugMatches[k].file)

\* two units carry the slug asked for and the one returned is the one glob
\* listed later
C20_Witness ==
    /\ q_op = "get_post_by_slug"
    /\ Len(SlugMatches) >= 2
    /\ q_ret # <<>>
    /\ \E k \in 1..Len(SlugMatches) :
          ScanPos(SlugMatches[k].file) < ScanPos(q_ret[1].file)

(***************************************************************************)
(* Claims about the refresh check of ContextManager                        *)
(***************************************************************************)
\* C17: ContextManager reads its file again only through a refresh check:
\* reload_if_changed and reload(force=False) read it if and only if its
\* modification time differs from the recorded one, and nothing but the
\* constructor and the reload methods ever reads it (template_kwargs and the
\* exposed fields do not).
C17_RereadOnlyOnRefreshCheck ==
    [][ /\ cm_loaded' =>
              cm_op' \in {"construct", "reload", "reload(force=True)", "reload_if_changed"}
        /\ cm_op' \in {"reload", "reload_if_changed"} =>
              (cm_loaded' <=> (ctx_file.exists /\ ctx_file.mtime # cm_mtime))
      ]_vars

\* a refresh check found a modification time other than the recorded one,
\* loaded the file and exposes its content
C17_Witness ==
    /\ cm_state = "ready"
    /\ cm_op = "reload_if_changed"
    /\ cm_loaded
    /\ cm_raised = ""
    /\ cm_mtime = ctx_file.mtime

ReturnedSinceLastEdit(t) ==
    /\ threads[t].pc = "idle"
    /\ threads[t].ret # <<>>
    /\ threads[t].began = edits.n

\* C19: whatever the interleaving of unlocked get_all_posts calls and file
\* edits, every collection returned is one whole sorted list that names no
\* file twice, and a call made after the last edit returns the collection
\* parsed from the files as they are.
C19_OnlyRedundantRescans ==
    \A t \in Threads :
        /\ threads[t].ret # <<>> =>
              /\ SortedByDate(threads[t].ret[1])
              /\ \A i, j \in 1..Len(threads[t].ret[1]) :
                    i # j => threads[t].ret[1][i].file # threads[t].ret[1][j].file
        /\ ReturnedSinceLastEdit(t) => threads[t].ret[1] \in Loads

\* C19 holds as long as every edit raised the latest modification time
C19_CurrentWhenMtimesAdvance == edits.later => C19_OnlyRedundantRescans

(***************************************************************************)
(* Claims about malformed units                                            *)
(***************************************************************************)
\* C21: a file whose frontmatter date is not of the form YYYY-MM-DD gives no
\* unit in the collection, for the blog and for the projects loader alike.
C21_MalformedDateExcluded ==
    lastOp = "request" =>
        \A f \in PresentFiles :
            (files[f].content.readable /\ files[f].content.date = MalformedDate) =>
                \A i \in 1..Len(coll) : coll[i].file # f.name

\* C21 holds of posts
C21_PostMalformedDateExcluded == engine = "blog" => C21_MalformedDateExcluded

(***************************************************************************)
(* Claims about validation and the exposed timeline                        *)
(***************************************************************************)
\* C22: for every document with an object root, validate returns a
\* ValidationResult and raises nothing itself, whatever the types of the
\* values of type and of the precisions.
C22_ValidateNeverRaises ==
    (cm_op = "construct" /\ load_json.raised = "") =>
        /\ cm_raised # "TypeError"
        /\ cm_result # <<>>

\* the exposed item is a current one, and the start date it carries
ExposedCurrent(x) == x.item.is_current = "true"

\* C23: in the exposed timeline every current item precedes every item that
\* is not current, within each of the two groups the start dates do not
\* increase, and the item at position i (from 0) has the i-th palette colour
\* when i < 6 and the last palette colour otherwise.
C23_TimelineOrderAndColours ==
    cm_state = "ready" =>
        /\ \A i, j \in 1..Len(cm_timeline) :
              i < j =>
                 /\ ExposedCurrent(cm_timeline[j]) => ExposedCurrent(cm_timeline[i])
                 /\ ExposedCurrent(cm_timeline[i]) = ExposedCurrent(cm_timeline[j]) =>
                        ExposedStart(cm_timeline[i]) >= ExposedStart(cm_timeline[j])
        /\ \A i \in 1..Len(cm_timeline) :
              cm_timeline[i].dot_class =
                  IF i - 1 < 6 THEN DOT_PALETTE[i] ELSE DOT_PALETTE[Len(DOT_PALETTE)]

\* a timeline of seven items or more was exposed in another order than the
\* file lists it, current and finished items among them, the finished one
\* that started last behind the current ones, the seventh in the last colour
C23_Witness ==
    /\ cm_state = "ready" /\ cm_op = "construct"
    /\ Len(cm_timeline) >= 7
    /\ cm_timeline[7].dot_class = DOT_PALETTE[6]
    /\ cm_timeline[5].dot_class # cm_timeline[7].dot_class
    /\ ExposedCurrent(cm_timeline[1]) /\ ~ExposedCurrent(cm_timeline[7])
    /\ \E i, j \in 1..Len(cm_timeline) :
          /\ i < j
          /\ ExposedCurrent(cm_timeline[i]) /\ ~ExposedCurrent(cm_timeline[j])
          /\ ExposedStart(cm_timeline[i]) < ExposedStart(cm_timeline[j])
    /\ [i \in 1..Len(cm_timeline) |-> cm_timeline[i].item] # ctx_file.doc.timeline

\* the text of a date in month-name/year form and in day-month-year form
MonthYearForm(d)    == <<MONTHS_EN[month_of(d)], year_of(d)>>
DayMonthYearForm(d) == <<day_of(d), MONTHS_EN[month_of(d)], year_of(d)>>

\* the text of a date of that precision
PrecisionForm(d, precision) ==
    IF precision = "day" THEN DayMonthYearForm(d) ELSE MonthYearForm(d)

\* C24: the display_range of each exposed item gives its start date in the
\* form of the start precision (month and year for "year" and "month", day,
\* month and year for "day"), followed by "Present" when the item is current
\* and by its end date in the form of the end precision otherwise.
C24_DisplayRangeByPrecision ==
    cm_state = "ready" =>
        \A i \in 1..Len(cm_timeline) :
            LET x == cm_timeline[i]
            IN  /\ x.display_range[1] = PrecisionForm(ExposedStart(x), x.item.start_precision)
                /\ ExposedCurrent(x) => x.display_range[3] = <<"Present">>
                /\ (~ExposedCurrent(x) /\ ExposedEnd(x) # NullDate) =>
                       x.display_range[3] = PrecisionForm(ExposedEnd(x), x.item.end_precision)

\* C24, the part about dates of year and of month precision and about
\* current items: such a start date is shown as month and year, and a
\* current item ends in "Present".
C24_MonthYearAndPresent ==
    cm_state = "ready" =>
        \A i \in 1..Len(cm_timeline) :
            LET x == cm_timeline[i]
            IN  /\ x.item.start_precision \in {"year", "month"} =>
                       x.display_range[1] = MonthYearForm(ExposedStart(x))
                /\ ExposedCurrent(x) => x.display_range[3] = <<"Present">>

(***************************************************************************)
(* Claims about failed reloads                                             *)
(***************************************************************************)
\* the calls of a constructed manager that may reload
ReloadOps == {"reload", "reload(force=True)", "reload_if_changed"}

\* the step is a reload of a constructed manager that raises, and it leaves
\* the exposed fields and the recorded mtime as they were
FailedReloadKeepsContext ==
    (cm_state = "ready" /\ cm_op' \in ReloadOps /\ cm_raised' # "") =>
        /\ cm_mtime' = cm_mtime
        /\ cm_timeline' = cm_timeline
        /\ cm_hobbies' = cm_hobbies
        /\ cm_state' = "ready"

\* the last call was a reload that raised
AfterFailedReload == cm_state = "ready" /\ cm_op \in ReloadOps /\ cm_raised # ""

\* the step is a reload_if_changed that tries to load the file again: it
\* reads the file, or finds no file to read
TriesAgain ==
    /\ cm_op' = "reload_if_changed"
    /\ IF ctx_file.exists THEN cm_loaded' ELSE cm_raised' = "FileNotFoundError"

\* C25 as stated: a reload that fails leaves every exposed field and the
\* recorded mtime unchanged, and the reload_if_changed that follows a failed
\* reload attempts the reload again.
C25_FailedReloadRetried ==
    [][/\ FailedReloadKeepsContext
       /\ (AfterFailedReload /\ cm_op' = "reload_if_changed") => TriesAgain]_vars

\* C25, amended: a reload that fails leaves every exposed field and the
\* recorded mtime unchanged; the reload_if_changed that follows attempts the
\* reload again when the mtime of the file is not the recorded one, which is
\* so whenever the failed call was itself a refresh check.
C25_FailedReloadRetriedWhenMtimeDiffers ==
    [][/\ FailedReloadKeepsContext
       /\ (AfterFailedReload /\ cm_op' = "reload_if_changed"
              /\ (ctx_file.exists => ctx_file.mtime # cm_mtime)) => TriesAgain
       /\ (AfterFailedReload /\ cm_op # "reload(force=True)" /\ ctx_file.exists) =>
              ctx_file.mtime # cm_mtime]_vars

\* a refresh check has just failed validation: the earlier timeline is
\* still exposed and the recorded mtime is still that of the earlier file
C25_Witness ==
    /\ cm_state = "ready" /\ cm_op = "reload_if_changed"
    /\ cm_raised = "ContextValidationError" /\ cm_loaded
    /\ cm_timeline # <<>>
    /\ ctx_file.exists /\ ctx_file.mtime # cm_mtime
    /\ ctx_file.doc.root = "ok"
    /\ tailor_timeline_items(ctx_file.doc.timeline) # cm_timeline

(***************************************************************************)
(* Claims about reloads that overlap a write                               *)
(***************************************************************************)
\* the manager exposes what construction over the file as it is would expose
ExposesFile ==
    /\ load_json.raised = ""
    /\ validate(ctx_file.doc).ok
    /\ ~build_derived_raises(ctx_file.doc)
    /\ cm_timeline = build_derived(ctx_file.doc).timeline
    /\ cm_hobbies = build_derived(ctx_file.doc).hobbies

\* C26: whatever the interleaving of the editor's writes with reload, once
\* reload has returned and nothing was written since, either the exposed
\* context is the one derived from the file as it is, or the mtime of the
\* file is not the recorded one, so that the next reload_if_changed reloads.
C26_WriteNeverMissed ==
    (threads.pc = "idle" /\ cm_op \in ReloadOps) =>
        (ExposesFile \/ ctx_file.mtime # cm_mtime)

\* C26, without writes inside the call: when the file was not written
\* between the read of line 243 and the stat of line 265, the property holds.
C26_NoWriteInsideReload ==
    (threads.pc = "idle" /\ cm_op \in ReloadOps /\ ~edits.inside) =>
        (ExposesFile \/ ctx_file.mtime # cm_mtime)

(***************************************************************************)
(* Claims about two engines of one class                                   *)
(***************************************************************************)
\* the collection of engine j is in the cache
Cached(j) == \E k \in 1..Len(lru) : lru[k].key[1] = j

\* C27: of two engines of one class over different directories, a get_all
\* or clear_cache on one leaves the cached collection of the other in the
\* cache, and, the files being unchanged, a get_all on an engine that has
\* loaded its collection and has not been cleared since does not rescan.
C27_IndependentCaches ==
    [][\A i \in Instances :
          (q_op' \in {"get_all", "clear_cache"} /\ q_arg' = i) =>
              /\ \A j \in Instances \ {i} : Cached(j) => Cached(j)'
              /\ (q_op' = "get_all" /\ instances[i].cache_timestamp # NoneTs) =>
                     ~scanned']_vars

\* C27, for one engine alone: a get_all that follows a get_all on the same
\* engine is answered from the cache.
C27_SameInstanceRepeatHits ==
    [][(q_op = "get_all" /\ q_op' = "get_all" /\ q_arg' = q_arg) => ~scanned']_vars

=============================================================================
